---- MODULE Spec2Model ----
(***************************************************************************)
(* Calendar synchronization core of calendar-fullstack-app (backend).      *)
(* State: the relational store (users' credentials, calendar_events,       *)
(* sync_state), the upstream Google calendar, and the in-flight requests   *)
(* with their position between two awaits.                                 *)
(***************************************************************************)
EXTENDS Integers, Sequences, FiniteSets, TLC

\* ---------------------------------------------------------------- bounds
Users == {"u1", "u2"}
\* the users that issue requests
Active == {"u1"}
GIds == {"g1", "g2"}
MaxProcs == 2
MaxSyncs == 3
MaxWrites == 2
MaxWriteSyncs == 2
MaxPairSyncs == 2
MaxOwnerWrites == 1
MaxGets == 1
MaxRetryCalls == 1
MaxAuths == 2
MaxCallbacks == 3
MaxStateClock == 15
MaxWebhooks == 1
MaxVaultOps == 2
MaxPlainLen == 2
MaxValueLen == 4
ByteCount == 4
BlockSize == 2
IvLength == 1
MaxSubscriptions == 2
MaxFlagOps == 1
MaxRollbackWrites == 1
MaxSkipSyncs == 1
MaxDelayOps == 3
MaxBackoffAttempt == 6
MaxStarts == 2
MaxFlagSyncs == 1
MaxFlagClock == 120
MaxStuckStarts == 2
MaxStuckErrors == 1
MaxTime == 1
MaxVer == 2
MaxTokenOps == 3
MaxLogins == 1
MaxClock == 2
\* minutes for which the upstream honours an access token it issues
Lifetime == 6

\* ------------------------------------------------------- program constants
\* DEFAULT_RETRY_CONFIG.maxRetries
MaxRetries == 3
DefaultLimit == 50
StateLifetime == 10
\* DEFAULT_RETRY_CONFIG's delays, in milliseconds
BaseDelay == 1000
MaxDelay == 30000
BackoffMultiplier == 2
\* cleanupData: INTERVAL '1 hour', in minutes
StuckInterval == 60
\* ensureValidToken: bufferTime = 5 * 60 * 1000 ms; the model clock counts minutes
BufferTime == 5

NULL == "null"
NoTime == -1
NoToken == -1
\* parseInt of what is not a number (a column the row does not have, a header
\* that is a date): not a number; no count and no delay is negative
NaN == -1
Procs == 1..MaxProcs

\* last: the response of the request that returned in the step just taken
VARIABLES users, now, events, nextId, upstream, upVer, cursor, procs, ops, last,
          oauth_states, webhook_subscriptions

vars == <<users, now, events, nextId, upstream, upVer, cursor, procs, ops, last,
          oauth_states, webhook_subscriptions>>

\* ------------------------------------------------------ upstream failures
\* An upstream (googleapis) failure: its code and the marker its message holds.
OK == [code |-> "200", msg |-> "ok"]
UpErrors ==
  { [code |-> "429", msg |-> "other"],
    [code |-> "403", msg |-> "quotaExceeded"],
    [code |-> "401", msg |-> "other"],
    [code |-> "ECONNRESET", msg |-> "other"],
    [code |-> "500", msg |-> "other"],
    [code |-> "404", msg |-> "other"],
    [code |-> "410", msg |-> "other"],
    [code |-> "400", msg |-> "Sync token is no longer valid"] }

Includes(msg, marker) == msg = marker

isRateLimitError(e) ==
  e.code = "429" \/ Includes(e.msg, "rateLimitExceeded") \/ Includes(e.msg, "userRateLimitExceeded")

isQuotaExceededError(e) ==
  e.code = "403" /\ (Includes(e.msg, "quotaExceeded") \/ Includes(e.msg, "dailyLimitExceeded"))

isAuthError(e) ==
  e.code = "401" \/ Includes(e.msg, "invalid_grant") \/ Includes(e.msg, "unauthorized")

\* a classifier that also takes a server error for a network error (C19 must
\* tell this variant apart)
isNetworkOrServerError(e) == e.code \in {"ECONNRESET", "ENOTFOUND", "ETIMEDOUT", "500"}

isNetworkError(e) ==
  e.code \in {"ECONNRESET", "ENOTFOUND", "ETIMEDOUT"} \/ Includes(e.msg, "network") \/ Includes(e.msg, "timeout")

\* AppError sets message = title and carries no .code
InternalServerError == [code |-> "none", msg |-> "Internal Server Error"]
UnauthorizedError == [code |-> "none", msg |-> "Unauthorized"]
BadRequestError == [code |-> "none", msg |-> "Bad Request"]
NotFoundError == [code |-> "none", msg |-> "Not Found"]
NoErr == [code |-> "none", msg |-> "none"]

\* The retry loop over the outcomes of the successive attempts (outs[a+1] is
\* the outcome of 0-based attempt a).
RECURSIVE RetryLoop(_, _, _)
RetryLoop(outs, attempt, maxRetries) ==
  LET o == outs[attempt + 1] IN
  IF o = OK
    THEN [ok |-> TRUE, err |-> NoErr, calls |-> attempt + 1]
    ELSE IF isRateLimitError(o)
      THEN IF attempt < maxRetries
             THEN RetryLoop(outs, attempt + 1, maxRetries)
             ELSE [ok |-> FALSE, err |-> o, calls |-> attempt + 1]
      ELSE IF isQuotaExceededError(o)
        THEN [ok |-> FALSE, err |-> InternalServerError, calls |-> attempt + 1]
        ELSE IF isAuthError(o)
          THEN [ok |-> FALSE, err |-> UnauthorizedError, calls |-> attempt + 1]
          ELSE IF isNetworkError(o)
            THEN IF attempt < maxRetries
                   THEN RetryLoop(outs, attempt + 1, maxRetries)
                   ELSE [ok |-> FALSE, err |-> o, calls |-> attempt + 1]
            ELSE [ok |-> FALSE, err |-> o, calls |-> attempt + 1]

executeWithRetry(outs) == RetryLoop(outs, 0, MaxRetries)

AttemptSeqs == [1..(MaxRetries + 1) -> {OK} \cup UpErrors]

\* What a call through executeWithRetry can end with: success or the error thrown.
RetryResults == { [ok |-> executeWithRetry(o).ok, err |-> executeWithRetry(o).err] : o \in AttemptSeqs }

\* ------------------------------------------------------------ credentials
\* users row: the credential columns (NoToken / NoTime are SQL NULL). An access
\* token is named by the minute at which the upstream stops honouring it.
CredRow(a, r, e) == [access_token |-> a, refresh_token |-> r, token_expires_at |-> e]

\* the rows a sign-in leaves at time t: passport's verify callback records the
\* expiry only when the profile carries expires_in, and Google sends a refresh
\* token only with the first consent
SignInRows(t, refreshTokens) ==
  { CredRow(t + Lifetime, r, e) : r \in refreshTokens, e \in {NoTime, t + Lifetime} }

\* ensureValidToken's test "expired or will expire soon"
NeedsRefresh(row, t) ==
  row.token_expires_at # NoTime /\ row.token_expires_at - t < BufferTime

\* getAuthenticatedCalendar succeeds only when ensureValidToken returns the
\* stored token as-is: the refresh path ends in storeTokens, whose statement
\* binds four values to three placeholders and is rejected by the database.
CredOk(u) ==
  users[u].access_token # NoToken /\ ~NeedsRefresh(users[u], now)

\* --------------------------------------------------------------- upstream
GSeq == <<"g1", "g2">>
NoEvent == [st |-> "none", title |-> "", upd |-> NoTime, chg |-> 0, start |-> 0, end |-> 0]

Item(u, g) ==
  [id |-> g, status |-> upstream[u][g].st, summary |-> upstream[u][g].title,
   updated |-> upstream[u][g].upd,
   start |-> upstream[u][g].start, end |-> upstream[u][g].end]

RECURSIVE ItemsFrom(_, _, _)
ItemsFrom(u, i, keep) ==
  IF i > Len(GSeq) THEN <<>>
  ELSE (IF GSeq[i] \in keep THEN <<Item(u, GSeq[i])>> ELSE <<>>) \o ItemsFrom(u, i + 1, keep)

\* events.list without a sync token: the events that exist (cancelled ones are not listed)
FullItems(u) ==
  ItemsFrom(u, 1, { g \in GIds : upstream[u][g].st = "confirmed" })

\* a listing that would hand out the change the token was issued at once more
\* (C13 must tell this variant apart)
IncrItemsInclusive(u, t) ==
  ItemsFrom(u, 1, { g \in GIds : upstream[u][g].st # "none" /\ upstream[u][g].chg >= t })

\* events.list with a sync token: everything changed since the token, cancellations included
IncrItems(u, t) ==
  ItemsFrom(u, 1, { g \in GIds : upstream[u][g].st # "none" /\ upstream[u][g].chg > t })

\* ------------------------------------------------------------- sync_state
\* the row createUserFromGoogleProfile inserts (column defaults)
NewCursor ==
  [next_sync_token |-> NoToken, last_sync_time |-> NoTime, full_sync_completed |-> FALSE,
   sync_in_progress |-> FALSE, sync_error |-> NULL, sync_error_count |-> 0, updated_at |-> 0]

\* updateSyncState: the ON CONFLICT (user_id) DO UPDATE branch; error = NULL when
\* the caller passes no message
updateSyncState(c, nextSyncToken, success, error, t) ==
  [c EXCEPT !.next_sync_token = nextSyncToken,
            !.last_sync_time = IF success THEN t ELSE c.last_sync_time,
            !.full_sync_completed = IF success THEN TRUE ELSE c.full_sync_completed,
            !.sync_error = error,
            !.sync_error_count = IF success THEN 0 ELSE c.sync_error_count + 1,
            !.updated_at = t]

\* ------------------------------------------------------------ local rows
Row(id, u, g, title, start, end, t) ==
  [id |-> id, user |-> u, gid |-> g, title |-> title, start |-> start, end |-> end, lm |-> t]

RowsOf(u, g) == { r \in events : r.user = u /\ r.gid = g }

\* a table without the CHECK constraint (C16 must tell this variant apart)
ValidDateRangeUnchecked(start, end) == TRUE

\* CONSTRAINT valid_date_range
ValidDateRange(start, end) == end >= start
\* a constraint that compares the upstream id with the rows of other owners
\* only (C17 must tell this variant apart)
UniqueOkAcrossOwners(u, g) == g = NULL \/ \A r \in events : r.gid = g => r.user = u

\* a table without the UNIQUE constraint (C15 must tell this variant apart)
UniqueOkUnconstrained(u, g) == TRUE

\* CONSTRAINT valid_google_event_id UNIQUE (user_id, google_event_id)
UniqueOk(u, g) == g = NULL \/ RowsOf(u, g) = {}

\* --------------------------------------------------------------- requests
Idle == [op |-> "idle"]

NewResult ==
  [success |-> TRUE, processed |-> 0, created |-> 0, updated |-> 0, deleted |-> 0,
   nerr |-> 0, nextSyncToken |-> NoToken]

FailedResult == [NewResult EXCEPT !.success = FALSE, !.nerr = 1]

NoLast == [op |-> "none"]

SetProc(p, rec) == procs' = [procs EXCEPT ![p] = rec]

\* a request of the given kind enters the service in the first free slot
Begin(p, kind) ==
  /\ procs[p] = Idle
  /\ \A q \in Procs : q < p => procs[q] # Idle
  /\ ops[kind] > 0 /\ ops.total > 0
  /\ ops' = [ops EXCEPT ![kind] = @ - 1, !.total = @ - 1]

\* ------------------------------------------------------------------- sync
\* syncWithGoogle up to its first list call: getAuthenticatedCalendar,
\* getSyncState and the choice of the mode. A credential failure goes to the
\* catch block, which calls updateSyncState(userId, null, false, message).
SyncEntry(u, fullSync) ==
  IF ~CredOk(u)
    THEN [op |-> "sync", u |-> u, pc |-> "update", res |-> FailedResult,
          upTok |-> NoToken, upErr |-> UnauthorizedError.msg,
          fb |-> FALSE, staleEnd |-> FALSE, dl |-> 0, tok |-> NoToken]
    ELSE LET isFullSync == fullSync \/ cursor[u].next_sync_token = NoToken
                             \/ ~cursor[u].full_sync_completed IN
         [op |-> "sync", u |-> u, pc |-> "list",
          mode |-> IF isFullSync THEN "full" ELSE "incr",
          tok |-> IF isFullSync THEN NoToken ELSE cursor[u].next_sync_token,
          first |-> TRUE,
          page |-> <<>>, rest |-> <<>>, nst |-> NoToken, res |-> NewResult,
          exist |-> -1, lm |-> NoTime, dl |-> 0]

SyncStart(p, u, fullSync) ==
  /\ Begin(p, "sync")
  /\ SetProc(p, SyncEntry(u, fullSync))
  /\ UNCHANGED <<users, now, events, nextId, upstream, upVer, cursor>>
  /\ last' = NoLast
  /\ UNCHANGED <<oauth_states, webhook_subscriptions>>

\* the invocation is in performFullSync called from performIncrementalSync
\* (tok is the syncToken argument of performIncrementalSync, if it was called)
FellBack(pr) == pr.mode = "full" /\ pr.tok # NoToken

\* where a sync goes once the current page is exhausted
AfterPage(pr) ==
  IF pr.page # <<>> THEN [pr EXCEPT !.pc = "item"]
  ELSE IF pr.rest # <<>> THEN [pr EXCEPT !.pc = "list"]
  ELSE [op |-> "sync", u |-> pr.u, pc |-> "update", res |-> pr.res,
        upTok |-> pr.res.nextSyncToken, upErr |-> NULL,
        fb |-> FellBack(pr), staleEnd |-> FALSE, dl |-> pr.dl, tok |-> pr.tok]

\* a test that would look at the status code only (C11 must tell this variant
\* apart)
IsStatusGone(e) == e.code = "410"

\* performIncrementalSync's test for an invalid sync token
IsTokenInvalid(e) == e.code = "410" \/ Includes(e.msg, "Sync token is no longer valid")

\* One events.list call through executeWithRetry (performFullSync /
\* performIncrementalSync). The upstream fixes the series' items and its
\* nextSyncToken at the first call and hands them out in pages of its choosing.
SyncList(p) ==
  /\ procs[p].op = "sync" /\ procs[p].pc = "list"
  /\ LET pr == procs[p]
         u == pr.u
         items == IF ~pr.first THEN pr.rest
                  ELSE IF pr.mode = "full" THEN FullItems(u) ELSE IncrItems(u, pr.tok)
         nst == IF pr.first THEN upVer[u] ELSE pr.nst
     IN \E r \in RetryResults :
          IF r.ok
            THEN \E k \in 0..Len(items) :
                   /\ (k = 0) <=> (items = <<>>)
                   /\ LET rest == SubSeq(items, k + 1, Len(items))
                          got == [pr EXCEPT !.first = FALSE, !.nst = nst,
                                            !.page = SubSeq(items, 1, k), !.rest = rest,
                                            !.dl = @ + k,
                                            !.res.nextSyncToken =
                                               IF rest = <<>> THEN nst ELSE NoToken]
                      IN SetProc(p, AfterPage(got))
            ELSE IF pr.mode = "incr" /\ IsTokenInvalid(r.err)
              THEN SetProc(p, [pr EXCEPT !.mode = "full", !.first = TRUE, !.page = <<>>,
                                         !.rest = <<>>, !.nst = NoToken, !.res = NewResult,
                                         !.dl = 0])
              ELSE SetProc(p, [op |-> "sync", u |-> u, pc |-> "update",
                               res |-> [pr.res EXCEPT !.success = FALSE, !.nerr = @ + 1],
                               upTok |-> pr.res.nextSyncToken, upErr |-> NULL,
                               fb |-> FellBack(pr), dl |-> pr.dl, tok |-> pr.tok,
                               staleEnd |-> pr.mode = "incr" /\
                                            (r.err.code = "410" \/
                                             r.err.msg = "Sync token is no longer valid")])
  /\ UNCHANGED <<users, now, events, nextId, upstream, upVer, cursor, ops>>
  /\ last' = NoLast
  /\ UNCHANGED <<oauth_states, webhook_subscriptions>>

\* a loop that would give up the sync at the first item that fails (C12 must
\* tell this variant apart)
NextItemAbortingOnError(pr, res) ==
  IF res.nerr > pr.res.nerr
    THEN [op |-> "sync", u |-> pr.u, pc |-> "update", res |-> [res EXCEPT !.success = FALSE],
          upTok |-> res.nextSyncToken, upErr |-> NULL,
          fb |-> FellBack(pr), staleEnd |-> FALSE, dl |-> pr.dl, tok |-> pr.tok]
    ELSE AfterPage([pr EXCEPT !.page = Tail(pr.page), !.res = res, !.exist = -1, !.lm = NoTime])

\* the item at the head of the page is finished with the given result
NextItem(pr, res) ==
  AfterPage([pr EXCEPT !.page = Tail(pr.page), !.res = res, !.exist = -1, !.lm = NoTime])

\* mapGoogleEventToInput: summary || 'Untitled Event', start / end instants
mapGoogleEventToInput(g) ==
  [title |-> IF g.summary = "" THEN "Untitled Event" ELSE g.summary,
   start |-> g.start, end |-> g.end]

\* a comparison that would also rewrite a row as old as the item (C32 must tell
\* this variant apart)
NeedsUpdateInclusive(googleUpdated, localUpdated) == googleUpdated >= localUpdated

\* processGoogleEvent's test "update is needed": googleUpdated > localUpdated
NeedsUpdate(googleUpdated, localUpdated) == googleUpdated > localUpdated

\* processGoogleEvent up to its first statement: a cancelled item is deleted
\* (handleDeletedEvent); otherwise the row is looked up by (user, upstream id)
\* and an existing row that is not older than the item is left alone.
SyncItem(p) ==
  /\ procs[p].op = "sync" /\ procs[p].pc = "item"
  /\ LET pr == procs[p]
         g == Head(pr.page)
         found == RowsOf(pr.u, g.id)
     IN IF g.status = "cancelled"
          THEN /\ events' = events \ found
               /\ SetProc(p, NextItem(pr, [pr.res EXCEPT !.deleted = @ + 1, !.processed = @ + 1]))
          ELSE /\ events' = events
               /\ IF found = {}
                    THEN SetProc(p, [pr EXCEPT !.pc = "write", !.exist = -1, !.lm = NoTime])
                    ELSE \E r \in found :
                           IF NeedsUpdate(g.updated, r.lm)
                             THEN SetProc(p, [pr EXCEPT !.pc = "write", !.exist = r.id, !.lm = r.lm])
                             ELSE SetProc(p, NextItem(pr, [pr.res EXCEPT !.processed = @ + 1]))
  /\ UNCHANGED <<users, now, nextId, upstream, upVer, cursor, ops>>
  /\ last' = NoLast
  /\ UNCHANGED <<oauth_states, webhook_subscriptions>>

\* createEventFromGoogle / updateEventFromGoogle: the INSERT or UPDATE that
\* follows the lookup. A constraint violation is caught by the per-item handler.
SyncWrite(p) ==
  /\ procs[p].op = "sync" /\ procs[p].pc = "write"
  /\ LET pr == procs[p]
         g == Head(pr.page)
         d == mapGoogleEventToInput(g)
         failed == [pr.res EXCEPT !.nerr = @ + 1]
     IN IF pr.exist = -1
          THEN IF UniqueOk(pr.u, g.id) /\ ValidDateRange(d.start, d.end)
                 THEN /\ events' = events \cup {Row(nextId, pr.u, g.id, d.title, d.start, d.end, now)}
                      /\ nextId' = nextId + 1
                      /\ SetProc(p, NextItem(pr, [pr.res EXCEPT !.created = @ + 1, !.processed = @ + 1]))
                 ELSE /\ UNCHANGED <<events, nextId>>
                      /\ SetProc(p, NextItem(pr, failed))
          ELSE IF ValidDateRange(d.start, d.end)
                 THEN /\ events' = { IF r.id = pr.exist /\ r.user = pr.u
                                       THEN Row(r.id, r.user, r.gid, d.title, d.start, d.end, now)
                                       ELSE r : r \in events }
                      /\ nextId' = nextId
                      /\ SetProc(p, NextItem(pr, [pr.res EXCEPT !.updated = @ + 1, !.processed = @ + 1]))
                 ELSE /\ UNCHANGED <<events, nextId>>
                      /\ SetProc(p, NextItem(pr, failed))
  /\ UNCHANGED <<users, now, upstream, upVer, cursor, ops>>
  /\ last' = NoLast
  /\ UNCHANGED <<oauth_states, webhook_subscriptions>>

\* the updateSyncState call that ends syncWithGoogle, and the result returned
SyncUpdateState(p) ==
  /\ procs[p].op = "sync" /\ procs[p].pc = "update"
  /\ LET pr == procs[p]
         after == updateSyncState(cursor[pr.u], pr.upTok, pr.res.success, pr.upErr, now)
     IN /\ cursor' = [cursor EXCEPT ![pr.u] = after]
        /\ last' = [op |-> "sync", u |-> pr.u, res |-> pr.res,
                    before |-> cursor[pr.u], after |-> after,
                    fb |-> pr.fb, staleEnd |-> pr.staleEnd, dl |-> pr.dl, tok |-> pr.tok]
  /\ SetProc(p, Idle)
  /\ UNCHANGED <<users, now, events, nextId, upstream, upVer, ops>>
  /\ UNCHANGED <<oauth_states, webhook_subscriptions>>

\* ---------------------------------------------------------- write-through
\* isValidEmail: /^[^\s@]+@[^\s@]+\.[^\s@]+$/ over a string given as its characters
WordChars(e, a, b) == a <= b /\ \A i \in a..b : e[i] \notin {" ", "@"}

isValidEmail(e) ==
  \E i \in 1..Len(e) : \E j \in 1..Len(e) :
    /\ e[i] = "@" /\ e[j] = "." /\ i + 1 < j
    /\ WordChars(e, 1, i - 1) /\ WordChars(e, i + 1, j - 1) /\ WordChars(e, j + 1, Len(e))

\* title.trim().length === 0
IsBlank(title) == title \in {"", " "}

\* validateEventInput: TRUE when no BadRequestError is thrown
validateEventInput(d) ==
  /\ ~IsBlank(d.title)
  /\ ~(d.start >= d.end)
  /\ \A i \in 1..Len(d.attendees) : d.attendees[i] # <<>> /\ isValidEmail(d.attendees[i])

Titles == {"", " ", "T"}
Times == 0..1
Emails == { <<"a", "@", "b", ".", "c">>, <<"a", "@", "b">>, <<"a", " ", "@", "b", ".", "c">>, <<>> }
AttendeeLists == {<<>>} \cup { <<e>> : e \in Emails }
CreateInputs == [title : Titles, start : Times, end : Times, attendees : AttendeeLists]

\* how an input stands to the three validation rules
Digest(d) ==
  [blank |-> IsBlank(d.title),
   cmp |-> IF d.end < d.start THEN "lt" ELSE IF d.end = d.start THEN "eq" ELSE "gt",
   badMail |-> \E i \in 1..Len(d.attendees) :
                 d.attendees[i] \notin {<<"a", "@", "b", ".", "c">>}]

\* the record of a finished write-through request
NoDigest == [blank |-> FALSE, cmp |-> "gt", badMail |-> FALSE]

Done(op, u, id, ok, err, upCalled, upAck, applied, reflected, gid) ==
  [op |-> op, u |-> u, id |-> id, ok |-> ok, err |-> err, upCalled |-> upCalled, upAck |-> upAck,
   applied |-> applied, reflected |-> reflected, gid |-> gid, dig |-> NoDigest]

DoneCreate(u, ok, err, upCalled, upAck, applied, reflected, gid, d) ==
  [Done("create", u, -1, ok, err, upCalled, upAck, applied, reflected, gid) EXCEPT !.dig = Digest(d)]

\* the id the upstream gives to the next new event (ids are handed out in order)
FreeGIds(u) ==
  { GSeq[i] : i \in { j \in 1..Len(GSeq) :
                        /\ upstream[u][GSeq[j]].st = "none"
                        /\ \A k \in 1..(j - 1) : upstream[u][GSeq[k]].st # "none" } }

\* createEvent up to the upstream insert: BEGIN, validateEventInput,
\* getAuthenticatedCalendar; a failure rolls back and is thrown to the caller.
CreateStart(p, u, d) ==
  /\ Begin(p, "write")
  /\ IF ~validateEventInput(d)
       THEN /\ last' = DoneCreate(u, FALSE, BadRequestError, FALSE, FALSE, FALSE, FALSE, NULL, d)
            /\ procs' = procs
       ELSE IF ~CredOk(u)
         THEN /\ last' = DoneCreate(u, FALSE, UnauthorizedError, FALSE, FALSE, FALSE, FALSE, NULL, d)
              /\ procs' = procs
         ELSE /\ last' = NoLast
              /\ SetProc(p, [op |-> "create", u |-> u, pc |-> "upstream", d |-> d, gid |-> NULL])
  /\ UNCHANGED <<users, now, events, nextId, upstream, upVer, cursor>>
  /\ UNCHANGED <<oauth_states, webhook_subscriptions>>

\* calendar.events.insert through executeWithRetry
CreateUpstream(p) ==
  /\ procs[p].op = "create" /\ procs[p].pc = "upstream"
  /\ LET pr == procs[p] IN
     \E r \in RetryResults :
       IF r.ok
         THEN \E g \in FreeGIds(pr.u) :
                /\ upstream' = [upstream EXCEPT ![pr.u][g] =
                                  [st |-> "confirmed", title |-> pr.d.title, upd |-> now,
                                   chg |-> upVer[pr.u] + 1,
                                   start |-> pr.d.start, end |-> pr.d.end]]
                /\ upVer' = [upVer EXCEPT ![pr.u] = @ + 1]
                /\ SetProc(p, [pr EXCEPT !.pc = "local", !.gid = g])
                /\ last' = NoLast
         ELSE /\ UNCHANGED <<upstream, upVer>>
              /\ SetProc(p, Idle)
              /\ last' = DoneCreate(pr.u, FALSE, r.err, TRUE, FALSE, FALSE, FALSE, NULL, pr.d)
  /\ UNCHANGED <<users, now, events, nextId, cursor, ops>>
  /\ UNCHANGED <<oauth_states, webhook_subscriptions>>

UniqueViolation == [code |-> "23505", msg |-> "duplicate key value violates unique constraint"]
CheckViolation == [code |-> "23514", msg |-> "violates check constraint"]
TypeError == [code |-> "none", msg |-> "Cannot read properties of undefined"]

\* createEvent's INSERT ... RETURNING and COMMIT
CreateLocal(p) ==
  /\ procs[p].op = "create" /\ procs[p].pc = "local"
  /\ LET pr == procs[p] IN
     IF UniqueOk(pr.u, pr.gid) /\ ValidDateRange(pr.d.start, pr.d.end)
       THEN /\ events' = events \cup {Row(nextId, pr.u, pr.gid, pr.d.title, pr.d.start, pr.d.end, now)}
            /\ nextId' = nextId + 1
            /\ last' = DoneCreate(pr.u, TRUE, NoErr, TRUE, TRUE, TRUE, TRUE, pr.gid, pr.d)
       ELSE /\ UNCHANGED <<events, nextId>>
            /\ last' = DoneCreate(pr.u, FALSE,
                                  IF UniqueOk(pr.u, pr.gid) THEN CheckViolation ELSE UniqueViolation,
                                  TRUE, TRUE, FALSE, RowsOf(pr.u, pr.gid) # {}, pr.gid, pr.d)
  /\ SetProc(p, Idle)
  /\ UNCHANGED <<users, now, upstream, upVer, cursor, ops>>
  /\ UNCHANGED <<oauth_states, webhook_subscriptions>>

\* sparse update bodies: NULL / NoTime stand for an absent (undefined) field
UpdateInputs == [title : {NULL, "", "U"}, start : {NoTime, 2}, end : {NoTime, 0}]

\* the complete representation updateEvent sends upstream (mapInputToGoogleEvent
\* of the sparse fields merged over the existing row)
MergedPayload(d, ex) ==
  [title |-> IF d.title # NULL /\ d.title # "" THEN d.title ELSE ex.title,
   start |-> IF d.start # NoTime THEN d.start ELSE ex.start,
   end |-> IF d.end # NoTime THEN d.end ELSE ex.end]

\* the row after updateEvent's UPDATE ... SET of the supplied fields
SparseUpdate(d, r, t) ==
  Row(r.id, r.user, r.gid,
      IF d.title # NULL THEN d.title ELSE r.title,
      IF d.start # NoTime THEN d.start ELSE r.start,
      IF d.end # NoTime THEN d.end ELSE r.end, t)

\* updateEvent as it would be if the local UPDATE did not wait for the upstream
\* (C4 must tell this variant apart)
UpdateStartSkippingUpstream(p, u, id, d) ==
  /\ Begin(p, "write")
  /\ LET found == { r \in events : r.id = id /\ r.user = u } IN
     IF found = {}
       THEN /\ last' = Done("update", u, id, FALSE, NotFoundError, FALSE, FALSE, FALSE, FALSE, NULL)
            /\ procs' = procs
       ELSE \E ex \in found :
              /\ last' = NoLast
              /\ SetProc(p, [op |-> "update", u |-> u, pc |-> "local", id |-> id,
                             d |-> d, ex |-> ex, upAck |-> FALSE])
  /\ UNCHANGED <<users, now, events, nextId, upstream, upVer, cursor>>
  /\ UNCHANGED <<oauth_states, webhook_subscriptions>>

\* updateEvent up to the upstream update: BEGIN, the lookup by (id, user) and,
\* for a row with an upstream id, getAuthenticatedCalendar and the merge.
UpdateStart(p, u, id, d) ==
  /\ Begin(p, "write")
  /\ LET found == { r \in events : r.id = id /\ r.user = u } IN
     IF found = {}
       THEN /\ last' = Done("update", u, id, FALSE, NotFoundError, FALSE, FALSE, FALSE, FALSE, NULL)
            /\ procs' = procs
       ELSE \E ex \in found :
              IF ex.gid = NULL
                THEN /\ last' = NoLast
                     /\ SetProc(p, [op |-> "update", u |-> u, pc |-> "local", id |-> id,
                                    d |-> d, ex |-> ex, upAck |-> FALSE])
                ELSE IF ~CredOk(u)
                  THEN /\ last' = Done("update", u, id, FALSE, UnauthorizedError, FALSE, FALSE,
                                       FALSE, FALSE, ex.gid)
                       /\ procs' = procs
                  ELSE /\ last' = NoLast
                       /\ SetProc(p, [op |-> "update", u |-> u, pc |-> "upstream", id |-> id,
                                      d |-> d, ex |-> ex, upAck |-> FALSE])
  /\ UNCHANGED <<users, now, events, nextId, upstream, upVer, cursor>>
  /\ UNCHANGED <<oauth_states, webhook_subscriptions>>

\* calendar.events.update through executeWithRetry; the upstream accepts a
\* complete representation whose end is not before its start
UpdateUpstream(p) ==
  /\ procs[p].op = "update" /\ procs[p].pc = "upstream"
  /\ LET pr == procs[p]
         m == MergedPayload(pr.d, pr.ex)
         g == pr.ex.gid
     IN \E r \in RetryResults :
          IF r.ok
            THEN /\ m.end >= m.start
                 /\ upstream[pr.u][g].st = "confirmed"
                 /\ upstream' = [upstream EXCEPT ![pr.u][g] =
                                   [@ EXCEPT !.title = m.title, !.start = m.start, !.end = m.end,
                                             !.upd = now, !.chg = upVer[pr.u] + 1]]
                 /\ upVer' = [upVer EXCEPT ![pr.u] = @ + 1]
                 /\ SetProc(p, [pr EXCEPT !.pc = "local", !.upAck = TRUE])
                 /\ last' = NoLast
            ELSE /\ UNCHANGED <<upstream, upVer>>
                 /\ SetProc(p, Idle)
                 /\ last' = Done("update", pr.u, pr.id, FALSE, r.err, TRUE, FALSE, FALSE, FALSE, g)
  /\ UNCHANGED <<users, now, events, nextId, cursor, ops>>
  /\ UNCHANGED <<oauth_states, webhook_subscriptions>>

\* updateEvent's UPDATE ... RETURNING *, COMMIT and the mapping of the returned row
UpdateLocal(p) ==
  /\ procs[p].op = "update" /\ procs[p].pc = "local"
  /\ LET pr == procs[p]
         found == { r \in events : r.id = pr.id /\ r.user = pr.u }
         called == pr.ex.gid # NULL
     IN IF found = {}
          THEN /\ events' = events
               /\ last' = Done("update", pr.u, pr.id, FALSE, TypeError, called, pr.upAck, FALSE, FALSE, pr.ex.gid)
          ELSE \E r \in found :
                 LET new == SparseUpdate(pr.d, r, now) IN
                 IF ValidDateRange(new.start, new.end)
                   THEN /\ events' = (events \ {r}) \cup {new}
                        /\ last' = Done("update", pr.u, pr.id, TRUE, NoErr, called, pr.upAck, TRUE, TRUE, pr.ex.gid)
                   ELSE /\ events' = events
                        /\ last' = Done("update", pr.u, pr.id, FALSE, CheckViolation, called, pr.upAck,
                                        FALSE, FALSE, pr.ex.gid)
  /\ SetProc(p, Idle)
  /\ UNCHANGED <<users, now, nextId, upstream, upVer, cursor, ops>>
  /\ UNCHANGED <<oauth_states, webhook_subscriptions>>

\* deleteEvent up to the upstream delete
DeleteStart(p, u, id) ==
  /\ Begin(p, "write")
  /\ LET found == { r \in events : r.id = id /\ r.user = u } IN
     IF found = {}
       THEN /\ last' = Done("delete", u, id, FALSE, NotFoundError, FALSE, FALSE, FALSE, TRUE, NULL)
            /\ procs' = procs
       ELSE \E ex \in found :
              IF ex.gid = NULL
                THEN /\ last' = NoLast
                     /\ SetProc(p, [op |-> "delete", u |-> u, pc |-> "local", id |-> id,
                                    ex |-> ex, upAck |-> FALSE, upErr |-> NoErr])
                ELSE IF ~CredOk(u)
                  THEN /\ last' = Done("delete", u, id, FALSE, UnauthorizedError, FALSE, FALSE,
                                       FALSE, FALSE, ex.gid)
                       /\ procs' = procs
                  ELSE /\ last' = NoLast
                       /\ SetProc(p, [op |-> "delete", u |-> u, pc |-> "upstream", id |-> id,
                                      ex |-> ex, upAck |-> FALSE, upErr |-> NoErr])
  /\ UNCHANGED <<users, now, events, nextId, upstream, upVer, cursor>>
  /\ UNCHANGED <<oauth_states, webhook_subscriptions>>

\* a test that would also read a server error as "already deleted" (C6 must
\* tell this variant apart)
IsGoneOrServerError(e) == e.code \in {"404", "410", "500"}

\* deleteEvent's test for "already deleted upstream"
IsGone(e) == e.code \in {"404", "410"}

\* calendar.events.delete through executeWithRetry. The upstream deletes an
\* event it has and answers 404 / 410 only for one it does not have.
DeleteUpstream(p) ==
  /\ procs[p].op = "delete" /\ procs[p].pc = "upstream"
  /\ LET pr == procs[p]
         g == pr.ex.gid
         exists == upstream[pr.u][g].st = "confirmed"
     IN \E r \in RetryResults :
          IF r.ok
            THEN /\ exists
                 /\ upstream' = [upstream EXCEPT ![pr.u][g] =
                                   [@ EXCEPT !.st = "cancelled", !.upd = now, !.chg = upVer[pr.u] + 1]]
                 /\ upVer' = [upVer EXCEPT ![pr.u] = @ + 1]
                 /\ SetProc(p, [pr EXCEPT !.pc = "local", !.upAck = TRUE])
                 /\ last' = NoLast
            ELSE /\ r.err.code \in {"404", "410"} => ~exists
                 /\ UNCHANGED <<upstream, upVer>>
                 /\ IF IsGone(r.err)
                      THEN /\ SetProc(p, [pr EXCEPT !.pc = "local", !.upErr = r.err])
                           /\ last' = NoLast
                      ELSE /\ SetProc(p, Idle)
                           /\ last' = Done("delete", pr.u, pr.id, FALSE, r.err, TRUE, FALSE, FALSE,
                                           { x \in events : x.id = pr.id /\ x.user = pr.u } = {}, g)
  /\ UNCHANGED <<users, now, events, nextId, cursor, ops>>
  /\ UNCHANGED <<oauth_states, webhook_subscriptions>>

\* deleteEvent's DELETE and COMMIT
DeleteLocal(p) ==
  /\ procs[p].op = "delete" /\ procs[p].pc = "local"
  /\ LET pr == procs[p] IN
     /\ events' = { r \in events : ~(r.id = pr.id /\ r.user = pr.u) }
     /\ last' = [Done("delete", pr.u, pr.id, TRUE, NoErr, pr.ex.gid # NULL, pr.upAck, TRUE, TRUE, pr.ex.gid)
                   EXCEPT !.err = pr.upErr]
  /\ SetProc(p, Idle)
  /\ UNCHANGED <<users, now, nextId, upstream, upVer, cursor, ops>>
  /\ UNCHANGED <<oauth_states, webhook_subscriptions>>

\* ------------------------------------------------- sync_state functions
\* start_sync_for_user (DatabaseUtils.startSyncForUser): the row exists, so the
\* ON CONFLICT branch sets the flag only where it is FALSE; FOUND is the result
start_sync_for_user(c, t) ==
  IF c.sync_in_progress = FALSE
    THEN [c EXCEPT !.sync_in_progress = TRUE, !.updated_at = t]
    ELSE c

\* complete_sync_for_user (DatabaseUtils.completeSyncForUser)
complete_sync_for_user(c, nextSyncToken, success, message, t) ==
  IF success
    THEN [c EXCEPT !.next_sync_token = nextSyncToken, !.last_sync_time = t,
                   !.full_sync_completed = TRUE, !.sync_in_progress = FALSE,
                   !.sync_error = NULL, !.sync_error_count = 0, !.updated_at = t]
    ELSE [c EXCEPT !.sync_in_progress = FALSE, !.sync_error = message,
                   !.sync_error_count = @ + 1, !.updated_at = t]

\* a caller of DatabaseUtils.startSyncForUser
\* (where ops has the field since, it remembers when the flag was set)
StartSyncForUser(u) ==
  /\ ops.flag > 0
  /\ ops' = IF "since" \in DOMAIN ops /\ ~cursor[u].sync_in_progress
              THEN [ops EXCEPT !.flag = @ - 1, !.since[u] = now]
              ELSE [ops EXCEPT !.flag = @ - 1]
  /\ cursor' = [cursor EXCEPT ![u] = start_sync_for_user(@, now)]
  /\ UNCHANGED <<users, now, events, nextId, upstream, upVer, procs>>
  /\ last' = NoLast
  /\ UNCHANGED <<oauth_states, webhook_subscriptions>>

\* the holder of the flag reports the end of its sync (a failure, or a success
\* that hands over the upstream's current token)
CompleteSyncForUser(u, success) ==
  /\ cursor[u].sync_in_progress
  /\ cursor' = [cursor EXCEPT ![u] =
                  complete_sync_for_user(@, IF success THEN upVer[u] ELSE NoToken, success,
                                         IF success THEN NULL ELSE "Sync failed", now)]
  /\ UNCHANGED <<users, now, events, nextId, upstream, upVer, procs, ops>>
  /\ last' = NoLast
  /\ UNCHANGED <<oauth_states, webhook_subscriptions>>

\* ---------------------------------------------------------- token manager
\* storeTokens: its UPDATE names the placeholders $1..$3, uses $1 both for
\* access_token and for id, and is sent with four values; the database rejects
\* the statement, the row stays as it is and InternalServerError is thrown.
storeTokensBound(rows, u, tokens) ==
  [ok |-> TRUE, rows |-> [rows EXCEPT ![u] = tokens]]

storeTokens(rows, u, tokens) ==
  [ok |-> FALSE, rows |-> rows]

\* getStoredTokens: none when the row has no access token, else the three
\* columns unwrapped (the columns are modelled by the values they unwrap to:
\* decrypt undoes encrypt, both run createCipher / createDecipher on one key)
NoTokens == [access_token |-> NoToken]
getStoredTokens(rows, u) ==
  IF rows[u].access_token = NoToken THEN NoTokens ELSE rows[u]

\* the record of a finished token request; t is the time of the return
TokDone(op, u, ok, err, token, stale) ==
  [op |-> op, u |-> u, ok |-> ok, err |-> err, token |-> token, t |-> now, stale |-> stale]

\* ensureValidToken up to its return or its call of refreshGoogleToken
EnsureStart(p, u) ==
  /\ Begin(p, "token")
  /\ LET row == users[u] IN
     IF row.access_token = NoToken
       THEN /\ last' = TokDone("ensure", u, FALSE, UnauthorizedError, NoToken, FALSE)
            /\ procs' = procs
       ELSE IF NeedsRefresh(row, now)
         THEN /\ last' = NoLast
              /\ SetProc(p, [op |-> "refresh", caller |-> "ensure", u |-> u, pc |-> "read",
                             seen |-> row, new |-> row])
         ELSE /\ last' = TokDone("ensure", u, TRUE, NoErr, row.access_token, FALSE)
              /\ procs' = procs
  /\ UNCHANGED <<users, now, events, nextId, upstream, upVer, cursor>>
  /\ UNCHANGED <<oauth_states, webhook_subscriptions>>

\* AuthController.refreshToken calls refreshGoogleToken directly
RefreshStart(p, u) ==
  /\ Begin(p, "token")
  /\ SetProc(p, [op |-> "refresh", caller |-> "refresh", u |-> u, pc |-> "read",
                 seen |-> users[u], new |-> users[u]])
  /\ last' = NoLast
  /\ UNCHANGED <<users, now, events, nextId, upstream, upVer, cursor>>
  /\ UNCHANGED <<oauth_states, webhook_subscriptions>>

\* refreshGoogleToken's getStoredTokens and the test for a refresh token
RefreshRead(p) ==
  /\ procs[p].op = "refresh" /\ procs[p].pc = "read"
  /\ LET pr == procs[p]
         row == users[pr.u]
     IN IF row.access_token = NoToken \/ row.refresh_token = NoToken
          THEN /\ last' = TokDone(pr.caller, pr.u, FALSE, UnauthorizedError, NoToken, FALSE)
               /\ SetProc(p, Idle)
          ELSE /\ last' = NoLast
               /\ SetProc(p, [pr EXCEPT !.pc = "upstream", !.seen = row])
  /\ UNCHANGED <<users, now, events, nextId, upstream, upVer, cursor, ops>>
  /\ UNCHANGED <<oauth_states, webhook_subscriptions>>

\* the answer of oauth2Client.refreshAccessToken: credentials with or without
\* a rotated refresh token and an expiry_date, or a failure
RefreshUpstream(p) ==
  /\ procs[p].op = "refresh" /\ procs[p].pc = "upstream"
  /\ LET pr == procs[p] IN
     \/ \E r \in {NoToken, pr.seen.refresh_token + 1}, e \in {NoTime, now + Lifetime} :
          /\ SetProc(p, [pr EXCEPT !.pc = "store",
                                   !.new = CredRow(now + Lifetime,
                                                   IF r # NoToken THEN r ELSE pr.seen.refresh_token,
                                                   e)])
          /\ last' = NoLast
     \/ \E err \in {UnauthorizedError, InternalServerError} :
          /\ SetProc(p, Idle)
          /\ last' = TokDone(pr.caller, pr.u, FALSE, err, NoToken, FALSE)
  /\ UNCHANGED <<users, now, events, nextId, upstream, upVer, cursor, ops>>
  /\ UNCHANGED <<oauth_states, webhook_subscriptions>>

\* refreshGoogleToken's storeTokens and return
RefreshStore(p) ==
  /\ procs[p].op = "refresh" /\ procs[p].pc = "store"
  /\ LET pr == procs[p]
         st == storeTokens(users, pr.u, pr.new)
         stale == users[pr.u] # pr.seen /\ users[pr.u].access_token # NoToken
     IN /\ users' = st.rows
        /\ last' = IF st.ok
                     THEN TokDone(pr.caller, pr.u, TRUE, NoErr, pr.new.access_token, stale)
                     ELSE TokDone(pr.caller, pr.u, FALSE, InternalServerError, NoToken, stale)
  /\ SetProc(p, Idle)
  /\ UNCHANGED <<now, events, nextId, upstream, upVer, cursor, ops>>
  /\ UNCHANGED <<oauth_states, webhook_subscriptions>>

\* a sign-in of an existing user: updateUserFromGoogleProfile's UPDATE
Login(u) ==
  /\ ops.login > 0
  /\ ops' = [ops EXCEPT !.login = @ - 1]
  /\ users' \in { [users EXCEPT ![u] = row] : row \in SignInRows(now, {NoToken, 1}) }
  /\ last' = NoLast
  /\ UNCHANGED <<now, events, nextId, upstream, upVer, cursor, procs>>
  /\ UNCHANGED <<oauth_states, webhook_subscriptions>>

\* revokeTokens up to its UPDATE: getStoredTokens and the upstream revocation,
\* whose failure is only logged. getStoredTokens throws when a stored token
\* cannot be unwrapped (decrypt fails on a column written under another key);
\* revokeTokens' outer catch turns that into an internal error.
RevokeStart(p, u) ==
  /\ Begin(p, "token")
  /\ \E unwrapped \in IF users[u].access_token = NoToken THEN {TRUE} ELSE BOOLEAN :
       IF unwrapped
         THEN /\ SetProc(p, [op |-> "revoke", u |-> u, pc |-> "clear"])
              /\ last' = NoLast
         ELSE /\ procs' = procs
              /\ last' = TokDone("revoke", u, FALSE, InternalServerError, NoToken, FALSE)
  /\ UNCHANGED <<users, now, events, nextId, upstream, upVer, cursor>>
  /\ UNCHANGED <<oauth_states, webhook_subscriptions>>

\* revokeTokens' UPDATE that clears the credential columns
RevokeClear(p) ==
  /\ procs[p].op = "revoke" /\ procs[p].pc = "clear"
  /\ users' = [users EXCEPT ![procs[p].u] = CredRow(NoToken, NoToken, NoTime)]
  /\ last' = TokDone("revoke", procs[p].u, TRUE, NoErr, NoToken, FALSE)
  /\ SetProc(p, Idle)
  /\ UNCHANGED <<now, events, nextId, upstream, upVer, cursor, ops>>
  /\ UNCHANGED <<oauth_states, webhook_subscriptions>>

\* the clock of the token manager (minutes)
TokenTick ==
  /\ now < MaxClock
  /\ now' = now + 1
  /\ UNCHANGED <<users, events, nextId, upstream, upVer, cursor, procs, ops>>
  /\ last' = NoLast
  /\ UNCHANGED <<oauth_states, webhook_subscriptions>>

\* ------------------------------------------------------------ environment
\* a change made to the user's Google calendar outside this service
UpstreamChange(u, g) ==
  /\ upVer[u] < MaxVer
  /\ \/ /\ g \in FreeGIds(u)
        /\ upstream' = [upstream EXCEPT ![u][g] =
                          [st |-> "confirmed", title |-> "T", upd |-> now, chg |-> upVer[u] + 1,
                           start |-> 0, end |-> 1]]
     \/ /\ upstream[u][g].st = "confirmed"
        /\ \E st \in {"confirmed", "cancelled"} :
             upstream' = [upstream EXCEPT ![u][g] =
                            [@ EXCEPT !.st = st, !.upd = now, !.chg = upVer[u] + 1]]
  /\ upVer' = [upVer EXCEPT ![u] = @ + 1]
  /\ UNCHANGED <<users, now, events, nextId, cursor, procs, ops>>
  /\ last' = NoLast
  /\ UNCHANGED <<oauth_states, webhook_subscriptions>>

\* the clock (minutes)
Tick ==
  /\ now < MaxTime
  /\ now' = now + 1
  /\ UNCHANGED <<users, events, nextId, upstream, upVer, cursor, procs, ops>>
  /\ last' = NoLast
  /\ UNCHANGED <<oauth_states, webhook_subscriptions>>

\* ------------------------------------------------------------------ system
\* users signed in through passport's verify callback (which records an expiry
\* only when the profile carries expires_in), each with the sync_state row made
\* at sign-up, and an empty replica or one holding an imported row
Init ==
  /\ users \in [Users -> SignInRows(BufferTime - Lifetime, {1})]
  /\ \A u \in Users \ Active : users[u].token_expires_at = NoTime
  /\ now = 0
  /\ events = {}
  /\ nextId = 1
  /\ upstream = [u \in Users |-> [g \in GIds |-> NoEvent]]
  /\ upVer = [u \in Users |-> 0]
  /\ cursor = [u \in Users |-> NewCursor]
  /\ procs = [p \in Procs |-> Idle]
  /\ ops = [sync |-> MaxSyncs, write |-> 0, flag |-> MaxFlagOps, token |-> 0, login |-> 0,
            total |-> MaxSyncs]
  /\ last = NoLast
  /\ oauth_states = {}
  /\ webhook_subscriptions = {}

Next ==
  \/ \E p \in Procs, u \in Active, f \in BOOLEAN : SyncStart(p, u, f)
  \/ \E p \in Procs : SyncList(p)
  \/ \E p \in Procs : SyncItem(p)
  \/ \E p \in Procs : SyncWrite(p)
  \/ \E p \in Procs : SyncUpdateState(p)
  \/ \E u \in Active : StartSyncForUser(u)
  \/ \E u \in Active, ok \in BOOLEAN : CompleteSyncForUser(u, ok)
  \/ \E u \in Active, g \in GIds : UpstreamChange(u, g)
  \/ Tick

Spec == Init /\ [][Next]_vars

\* the write-through mediator next to one sync, over a replica that is empty or
\* holds an imported row
InitWrite ==
  /\ users \in [Users -> SignInRows(BufferTime - Lifetime, {1})]
  /\ \A u \in Users \ Active : users[u].token_expires_at = NoTime
  /\ now = 0
  /\ events \in { {}, {Row(0, "u1", NULL, "T", 0, 1, 0)} }
  /\ nextId = 1
  /\ upstream = [u \in Users |-> [g \in GIds |-> NoEvent]]
  /\ upVer = [u \in Users |-> 0]
  /\ cursor = [u \in Users |-> NewCursor]
  /\ procs = [p \in Procs |-> Idle]
  /\ ops = [sync |-> MaxWriteSyncs, write |-> MaxWrites, flag |-> 0, token |-> 0, login |-> 0,
            total |-> MaxWrites]
  /\ last = NoLast
  /\ oauth_states = {}
  /\ webhook_subscriptions = {}

NextWrite ==
  \/ \E p \in Procs, u \in Active, f \in BOOLEAN : SyncStart(p, u, f)
  \/ \E p \in Procs : SyncList(p)
  \/ \E p \in Procs : SyncItem(p)
  \/ \E p \in Procs : SyncWrite(p)
  \/ \E p \in Procs : SyncUpdateState(p)
  \/ \E p \in Procs, u \in Active, d \in CreateInputs : CreateStart(p, u, d)
  \/ \E p \in Procs : CreateUpstream(p)
  \/ \E p \in Procs : CreateLocal(p)
  \/ \E p \in Procs, u \in Active, id \in 0..(nextId - 1), d \in UpdateInputs : UpdateStart(p, u, id, d)
  \/ \E p \in Procs : UpdateUpstream(p)
  \/ \E p \in Procs : UpdateLocal(p)
  \/ \E p \in Procs, u \in Active, id \in 0..(nextId - 1) : DeleteStart(p, u, id)
  \/ \E p \in Procs : DeleteUpstream(p)
  \/ \E p \in Procs : DeleteLocal(p)
  \/ \E u \in Active, g \in GIds : UpstreamChange(u, g)
  \/ Tick

SpecWrite == InitWrite /\ [][NextWrite]_vars

\* the token manager alone: ensureValidToken, refreshGoogleToken, revokeTokens
\* and sign-ins of a user who signed in before
InitToken ==
  /\ users \in [Users -> SignInRows(BufferTime - Lifetime, {1})]
  /\ \A u \in Users \ Active : users[u].token_expires_at = NoTime
  /\ now = 0
  /\ events = {}
  /\ nextId = 1
  /\ upstream = [u \in Users |-> [g \in GIds |-> NoEvent]]
  /\ upVer = [u \in Users |-> 0]
  /\ cursor = [u \in Users |-> NewCursor]
  /\ procs = [p \in Procs |-> Idle]
  /\ ops = [sync |-> 0, write |-> 0, flag |-> 0, token |-> MaxTokenOps, login |-> MaxLogins,
            total |-> MaxTokenOps]
  /\ last = NoLast
  /\ oauth_states = {}
  /\ webhook_subscriptions = {}

NextToken ==
  \/ \E p \in Procs, u \in Active : EnsureStart(p, u)
  \/ \E p \in Procs, u \in Active : RefreshStart(p, u)
  \/ \E p \in Procs : RefreshRead(p)
  \/ \E p \in Procs : RefreshUpstream(p)
  \/ \E p \in Procs : RefreshStore(p)
  \/ \E u \in Active : Login(u)
  \/ \E p \in Procs, u \in Active : RevokeStart(p, u)
  \/ \E p \in Procs : RevokeClear(p)
  \/ TokenTick

SpecToken == InitToken /\ [][NextToken]_vars

\* ------------------------------------------------------- executeWithRetry
\* what one operation() call can end with: success, or a failure of one of
\* the kinds the loop tells apart (Google reports per-user rate limiting as
\* a 403 whose message names userRateLimitExceeded)
RetryOutcomes ==
  { OK,
    [code |-> "429", msg |-> "other"],
    [code |-> "403", msg |-> "userRateLimitExceeded"],
    [code |-> "403", msg |-> "quotaExceeded"],
    [code |-> "401", msg |-> "other"],
    [code |-> "ECONNRESET", msg |-> "other"],
    [code |-> "500", msg |-> "other"] }

\* lastError before the first attempt
UnknownError == [code |-> "none", msg |-> "Unknown error"]

\* a loop that makes one attempt more than configured (C20 must tell this
\* variant apart)
LoopRunsOnceMore(attempt, maxRetries) == attempt <= maxRetries + 1

\* the for loop's condition
LoopRuns(attempt, maxRetries) == attempt <= maxRetries

\* whether the catch block lets the loop go on after error e (rate limit and
\* network errors; quota and auth errors are tested in between)
GoesOn(e) ==
  isRateLimitError(e) \/ (~isQuotaExceededError(e) /\ ~isAuthError(e) /\ isNetworkError(e))

RetryDone(n, outs, ok, err) ==
  [op |-> "retry", n |-> n, outs |-> outs, ok |-> ok, err |-> err]

\* a call of executeWithRetry with retryConfig.maxRetries = n
RetryStart(p, n) ==
  /\ Begin(p, "retry")
  /\ SetProc(p, [op |-> "retry", n |-> n, attempt |-> 0, outs |-> <<>>, lastError |-> UnknownError])
  /\ last' = NoLast
  /\ UNCHANGED <<users, now, events, nextId, upstream, upVer, cursor>>
  /\ UNCHANGED <<oauth_states, webhook_subscriptions>>

\* one pass of the loop body: operation() and, when it fails, the catch block
RetryAttempt(p) ==
  /\ procs[p].op = "retry"
  /\ LoopRuns(procs[p].attempt, procs[p].n)
  /\ \E o \in RetryOutcomes :
       LET pr == procs[p]
           outs == Append(pr.outs, o)
       IN IF o = OK
            THEN /\ SetProc(p, Idle)
                 /\ last' = RetryDone(pr.n, outs, TRUE, NoErr)
            ELSE IF isRateLimitError(o)
              THEN /\ SetProc(p, [pr EXCEPT !.attempt = @ + 1, !.outs = outs, !.lastError = o])
                   /\ last' = NoLast
              ELSE IF isQuotaExceededError(o)
                THEN /\ SetProc(p, Idle)
                     /\ last' = RetryDone(pr.n, outs, FALSE, InternalServerError)
                ELSE IF isAuthError(o)
                  THEN /\ SetProc(p, Idle)
                       /\ last' = RetryDone(pr.n, outs, FALSE, UnauthorizedError)
                  ELSE IF isNetworkError(o)
                    THEN /\ SetProc(p, [pr EXCEPT !.attempt = @ + 1, !.outs = outs, !.lastError = o])
                         /\ last' = NoLast
                    ELSE /\ SetProc(p, Idle)
                         /\ last' = RetryDone(pr.n, outs, FALSE, o)
  /\ UNCHANGED <<users, now, events, nextId, upstream, upVer, cursor, ops>>
  /\ UNCHANGED <<oauth_states, webhook_subscriptions>>

\* the loop is over: throw lastError
RetryThrow(p) ==
  /\ procs[p].op = "retry"
  /\ ~LoopRuns(procs[p].attempt, procs[p].n)
  /\ SetProc(p, Idle)
  /\ last' = RetryDone(procs[p].n, procs[p].outs, FALSE, procs[p].lastError)
  /\ UNCHANGED <<users, now, events, nextId, upstream, upVer, cursor, ops>>
  /\ UNCHANGED <<oauth_states, webhook_subscriptions>>

InitRetry ==
  /\ users \in [Users -> SignInRows(BufferTime - Lifetime, {1})]
  /\ \A u \in Users : users[u].token_expires_at = NoTime
  /\ now = 0
  /\ events = {}
  /\ nextId = 1
  /\ upstream = [u \in Users |-> [g \in GIds |-> NoEvent]]
  /\ upVer = [u \in Users |-> 0]
  /\ cursor = [u \in Users |-> NewCursor]
  /\ procs = [p \in Procs |-> Idle]
  /\ ops = [sync |-> 0, write |-> 0, flag |-> 0, token |-> 0, login |-> 0,
            retry |-> MaxRetryCalls, total |-> MaxRetryCalls]
  /\ last = NoLast
  /\ oauth_states = {}
  /\ webhook_subscriptions = {}

NextRetry ==
  \/ \E p \in Procs, n \in 0..MaxRetries : RetryStart(p, n)
  \/ \E p \in Procs : RetryAttempt(p)
  \/ \E p \in Procs : RetryThrow(p)

\* the event loop runs every continuation that is ready: a started call is
\* carried on until it returns
SpecRetry ==
  /\ InitRetry /\ [][NextRetry]_vars
  /\ \A p \in Procs : WF_vars(RetryAttempt(p)) /\ WF_vars(RetryThrow(p))

\* ------------------------------------------------------------ OAuth state
\* generateStateToken draws 32 random bytes: every issued state is a new one
StateTokens == {"s1", "s2"}

StateRow(state, expires_at) == [state |-> state, expires_at |-> expires_at]

\* the SELECT of validateStateToken: state = $1 AND expires_at > CURRENT_TIMESTAMP
LiveStateRows(state, t) ==
  { r \in oauth_states : r.state = state /\ r.expires_at > t }

\* initiateGoogleAuth: generateStateToken and storeStateToken (expiry ten
\* minutes from now)
StoreStateToken(state) ==
  /\ ops.auth > 0
  /\ \A r \in oauth_states : r.state # state
  /\ state \notin ops.issued
  /\ ops' = [ops EXCEPT !.auth = @ - 1, !.issued = @ \cup {state}]
  /\ oauth_states' = oauth_states \cup {StateRow(state, now + StateLifetime)}
  /\ last' = NoLast
  /\ UNCHANGED <<users, now, events, nextId, upstream, upVer, cursor, procs, webhook_subscriptions>>

\* validateStateToken up to its DELETE: the SELECT and the test of its result
ValidateSelect(p, state) ==
  /\ Begin(p, "callback")
  /\ IF LiveStateRows(state, now) # {}
       THEN /\ SetProc(p, [op |-> "validate", state |-> state, pc |-> "delete", at |-> now])
            /\ last' = NoLast
       ELSE /\ procs' = procs
            /\ last' = [op |-> "validate", state |-> state, ok |-> FALSE, at |-> now]
  /\ UNCHANGED <<users, now, events, nextId, upstream, upVer, cursor, oauth_states,
                 webhook_subscriptions>>

\* validateStateToken's DELETE and return true; a failing DELETE is caught and
\* false returned
ValidateDelete(p) ==
  /\ procs[p].op = "validate" /\ procs[p].pc = "delete"
  /\ \E deleted \in BOOLEAN :
       /\ oauth_states' = IF deleted
                            THEN { r \in oauth_states : r.state # procs[p].state }
                            ELSE oauth_states
       /\ last' = [op |-> "validate", state |-> procs[p].state, ok |-> deleted, at |-> procs[p].at]
  /\ SetProc(p, Idle)
  /\ UNCHANGED <<users, now, events, nextId, upstream, upVer, cursor, ops, webhook_subscriptions>>

\* the clock of the sign-in flow, in steps of half a state's lifetime
StateTick ==
  /\ now < MaxStateClock
  /\ now' = now + StateLifetime \div 2
  /\ last' = NoLast
  /\ UNCHANGED <<users, events, nextId, upstream, upVer, cursor, procs, ops, oauth_states,
                 webhook_subscriptions>>

InitState ==
  /\ users \in [Users -> SignInRows(BufferTime - Lifetime, {1})]
  /\ \A u \in Users : users[u].token_expires_at = NoTime
  /\ now = 0
  /\ events = {}
  /\ nextId = 1
  /\ upstream = [u \in Users |-> [g \in GIds |-> NoEvent]]
  /\ upVer = [u \in Users |-> 0]
  /\ cursor = [u \in Users |-> NewCursor]
  /\ procs = [p \in Procs |-> Idle]
  /\ ops = [sync |-> 0, write |-> 0, flag |-> 0, token |-> 0, login |-> 0,
            auth |-> MaxAuths, callback |-> MaxCallbacks, total |-> MaxCallbacks, issued |-> {}]
  /\ last = NoLast
  /\ oauth_states = {}
  /\ webhook_subscriptions = {}

NextState ==
  \/ \E state \in StateTokens : StoreStateToken(state)
  \/ \E p \in Procs, state \in StateTokens : ValidateSelect(p, state)
  \/ \E p \in Procs : ValidateDelete(p)
  \/ StateTick

SpecState == InitState /\ [][NextState]_vars

\* ------------------------------------------------------- failing statements
\* createEventFromGoogle / updateEventFromGoogle when the database does not
\* run the statement (connection lost, statement timeout, a value the column
\* does not take): processGoogleEvent throws and the loop's catch records the
\* error and goes on with the next item
SyncWriteRejected(p) ==
  /\ procs[p].op = "sync" /\ procs[p].pc = "write"
  /\ SetProc(p, NextItem(procs[p], [procs[p].res EXCEPT !.nerr = @ + 1]))
  /\ UNCHANGED <<users, now, events, nextId, upstream, upVer, cursor, ops>>
  /\ last' = NoLast
  /\ UNCHANGED <<oauth_states, webhook_subscriptions>>

\* one sync of a user who is new or was synced when the upstream held one
\* event; the upstream changes only before the sync starts
InitSkip ==
  /\ users \in [Users -> SignInRows(BufferTime - Lifetime, {1})]
  /\ \A u \in Users : users[u].token_expires_at = NoTime
  /\ now = 0
  /\ nextId = 1
  /\ upVer = [u \in Users |-> 0]
  /\ procs = [p \in Procs |-> Idle]
  /\ last = NoLast
  /\ oauth_states = {}
  /\ webhook_subscriptions = {}
  /\ \E synced \in BOOLEAN :
       /\ events = IF synced THEN {Row(0, "u1", "g1", "T", 0, 1, 0)} ELSE {}
       /\ upstream = [u \in Users |-> [g \in GIds |->
                        IF synced /\ u = "u1" /\ g = "g1"
                          THEN [st |-> "confirmed", title |-> "T", upd |-> 0, chg |-> 0,
                                start |-> 0, end |-> 1]
                          ELSE NoEvent]]
       /\ cursor = [u \in Users |->
                      IF synced /\ u = "u1"
                        THEN updateSyncState(NewCursor, 0, TRUE, NULL, 0)
                        ELSE NewCursor]
       /\ ops = [sync |-> MaxSkipSyncs, write |-> 0, flag |-> 0, token |-> 0, login |-> 0,
                 total |-> MaxSkipSyncs]

NextSkip ==
  \/ \E p \in Procs, u \in Active, f \in BOOLEAN : SyncStart(p, u, f)
  \/ \E p \in Procs : SyncList(p)
  \/ \E p \in Procs : SyncItem(p)
  \/ \E p \in Procs : SyncWrite(p)
  \/ \E p \in Procs : SyncWriteRejected(p)
  \/ \E p \in Procs : SyncUpdateState(p)
  \/ \E u \in Active, g \in GIds : ops.total = MaxSkipSyncs /\ UpstreamChange(u, g)
  \/ Tick

SpecSkip == InitSkip /\ [][NextSkip]_vars

\* ------------------------------------------------------------ retry delay
\* the Retry-After header of a failed call: absent, a number of seconds, or
\* an HTTP date
RetryAfterHeaders == {NULL, "0", "1", "60", "Wed, 21 Oct 2015 07:28:00 GMT"}

\* getRetryAfterDelay's null
NoDelay == -2

\* parseInt of a header value (NaN when it does not start with a digit)
parseInt(str) ==
  CASE str = "0" -> 0 [] str = "1" -> 1 [] str = "60" -> 60 [] OTHER -> NaN

\* JavaScript's falsy numbers and null (the left operand of ||)
Falsy(v) == v \in {0, NaN, NoDelay}

\* getRetryAfterDelay(error) || backoff: the header, when it is a non-empty
\* string, is parsed and converted to milliseconds; a falsy result gives way
\* to the backoff
getRetryAfterDelayOrBackoff(e, backoff) ==
  LET retryAfter == IF e.retryAfter # NULL
                      THEN (IF parseInt(e.retryAfter) = NaN THEN NaN
                            ELSE parseInt(e.retryAfter) * 1000)
                      ELSE NoDelay
  IN IF Falsy(retryAfter) THEN backoff ELSE retryAfter

\* Math.pow on naturals
RECURSIVE Pow(_, _)
Pow(b, e) == IF e = 0 THEN 1 ELSE b * Pow(b, e - 1)

\* calculateBackoffDelay under DEFAULT_RETRY_CONFIG's delays
calculateBackoffDelay(attempt) ==
  LET delay == BaseDelay * Pow(BackoffMultiplier, attempt)
  IN IF delay < MaxDelay THEN delay ELSE MaxDelay

\* the failures executeWithRetry sleeps after
DelayErrors ==
  { [code |-> "429", msg |-> "other", retryAfter |-> h] : h \in RetryAfterHeaders }
  \cup { [code |-> "ECONNRESET", msg |-> "other", retryAfter |-> NULL] }

\* the argument of this.delay() in the catch block of 0-based attempt number
\* attempt (attempt < retryConfig.maxRetries)
retryDelay(attempt, e) ==
  IF isRateLimitError(e)
    THEN getRetryAfterDelayOrBackoff(e, calculateBackoffDelay(attempt))
    ELSE calculateBackoffDelay(attempt)

\* one failed attempt of a call whose retryConfig allows a retry after it
RetryDelay(attempt, e) ==
  /\ ops.delay > 0
  /\ ops' = [ops EXCEPT !.delay = @ - 1]
  /\ last' = [op |-> "delay", attempt |-> attempt, e |-> e, ms |-> retryDelay(attempt, e)]
  /\ UNCHANGED <<users, now, events, nextId, upstream, upVer, cursor, procs, oauth_states,
                 webhook_subscriptions>>

InitDelay ==
  /\ users \in [Users -> SignInRows(BufferTime - Lifetime, {1})]
  /\ \A u \in Users : users[u].token_expires_at = NoTime
  /\ now = 0
  /\ events = {}
  /\ nextId = 1
  /\ upstream = [u \in Users |-> [g \in GIds |-> NoEvent]]
  /\ upVer = [u \in Users |-> 0]
  /\ cursor = [u \in Users |-> NewCursor]
  /\ procs = [p \in Procs |-> Idle]
  /\ ops = [sync |-> 0, write |-> 0, flag |-> 0, token |-> 0, login |-> 0,
            delay |-> MaxDelayOps, total |-> MaxDelayOps]
  /\ last = NoLast
  /\ oauth_states = {}
  /\ webhook_subscriptions = {}

\* retryConfig.maxRetries up to MaxBackoffAttempt + 1, so that the cap is met
NextDelay ==
  \E attempt \in 0..MaxBackoffAttempt, e \in DelayErrors : RetryDelay(attempt, e)

SpecDelay == InitDelay /\ [][NextDelay]_vars

\* ------------------------------------------------------------ maintenance
StuckMarker == "Reset due to maintenance - sync was stuck"

\* a reset that would not look at the age of the row (C33 must tell this
\* variant apart)
cleanupDataAnyAge(c, t) ==
  IF c.sync_in_progress
    THEN [c EXCEPT !.sync_in_progress = FALSE, !.sync_error = StuckMarker,
                   !.sync_error_count = @ + 1, !.updated_at = t]
    ELSE c

\* DatabaseMaintenance.cleanupData, the UPDATE that resets stuck syncs, on one
\* sync_state row
cleanupData(c, t) ==
  IF c.sync_in_progress /\ c.updated_at < t - StuckInterval
    THEN [c EXCEPT !.sync_in_progress = FALSE, !.sync_error = StuckMarker,
                   !.sync_error_count = @ + 1, !.updated_at = t]
    ELSE c

CleanupData ==
  /\ cursor' = [u \in Users |-> cleanupData(cursor[u], now)]
  /\ last' = NoLast
  /\ UNCHANGED <<users, now, events, nextId, upstream, upVer, procs, ops, oauth_states,
                 webhook_subscriptions>>

\* the clock of the maintenance runs, in steps of half the stuck interval
FlagTick ==
  /\ now < MaxFlagClock
  /\ now' = now + StuckInterval \div 2
  /\ last' = NoLast
  /\ UNCHANGED <<users, events, nextId, upstream, upVer, cursor, procs, ops, oauth_states,
                 webhook_subscriptions>>

\* users whose syncs are scheduled through start_sync_for_user /
\* complete_sync_for_user, one of them also syncing through the API, and the
\* maintenance script run at any time
InitFlag ==
  /\ users \in [Users -> SignInRows(BufferTime - Lifetime, {1})]
  /\ \A u \in Users : users[u].token_expires_at = NoTime
  /\ now = 0
  /\ events = {}
  /\ nextId = 1
  /\ upstream = [u \in Users |-> [g \in GIds |->
                    IF g = "g1"
                      THEN [st |-> "confirmed", title |-> "T", upd |-> 0, chg |-> 1,
                            start |-> 0, end |-> 1]
                      ELSE NoEvent]]
  /\ upVer = [u \in Users |-> 1]
  /\ cursor = [u \in Users |-> NewCursor]
  /\ procs = [p \in Procs |-> Idle]
  /\ ops = [sync |-> MaxFlagSyncs, write |-> 0, flag |-> MaxStarts, token |-> 0, login |-> 0,
            total |-> MaxFlagSyncs, since |-> [u \in Users |-> NoTime]]
  /\ last = NoLast
  /\ oauth_states = {}
  /\ webhook_subscriptions = {}

NextFlag ==
  \/ \E u \in Users : StartSyncForUser(u)
  \/ \E u \in Users, ok \in BOOLEAN : CompleteSyncForUser(u, ok)
  \/ CleanupData
  \/ \E p \in Procs, u \in Active : SyncStart(p, u, FALSE)
  \/ \E p \in Procs : SyncList(p)
  \/ \E p \in Procs : SyncItem(p)
  \/ \E p \in Procs : SyncWrite(p)
  \/ \E p \in Procs : SyncUpdateState(p)
  \/ FlagTick

SpecFlag == InitFlag /\ [][NextFlag]_vars

\* ------------------------------------------------- maintenance, over time
\* syncWithGoogle for a user whose calendar is empty on both sides, in one
\* step: neither the list call nor the import writes anything, and the call
\* ends in updateSyncState, after a success with the upstream's token or
\* through the catch block after a failure.
SyncWithGoogle(u, success) ==
  /\ success \/ cursor[u].sync_error_count < MaxStuckErrors
  /\ cursor' = [cursor EXCEPT ![u] =
                  IF success
                    THEN updateSyncState(@, upVer[u], TRUE, NULL, now)
                    ELSE updateSyncState(@, NoToken, FALSE, UnauthorizedError.msg, now)]
  /\ last' = NoLast
  /\ UNCHANGED <<users, now, events, nextId, upstream, upVer, procs, ops, oauth_states,
                 webhook_subscriptions>>

\* an instant of the sync_state table seen half a stuck interval later, when
\* time is measured from an origin moved by as much (instants before the
\* origin count as the origin, which is more than the stuck interval ago)
Aged(t) ==
  IF t = NoTime THEN NoTime
  ELSE IF t < StuckInterval \div 2 THEN 0
  ELSE t - StuckInterval \div 2

\* the clock, in steps of half the stuck interval, going on for ever: once now
\* has reached MaxFlagClock the origin of time moves instead of now
StuckTick ==
  /\ IF now < MaxFlagClock
       THEN /\ now' = now + StuckInterval \div 2
            /\ cursor' = cursor
       ELSE /\ now' = now
            /\ cursor' = [u \in Users |->
                            [cursor[u] EXCEPT !.updated_at = Aged(@),
                                              !.last_sync_time = Aged(@)]]
  /\ last' = NoLast
  /\ UNCHANGED <<users, events, nextId, upstream, upVer, procs, ops, oauth_states,
                 webhook_subscriptions>>

InitStuck ==
  /\ users \in [Users -> SignInRows(BufferTime - Lifetime, {1})]
  /\ \A u \in Users : users[u].token_expires_at = NoTime
  /\ now = 0
  /\ events = {}
  /\ nextId = 1
  /\ upstream = [u \in Users |-> [g \in GIds |-> NoEvent]]
  /\ upVer = [u \in Users |-> 1]
  /\ cursor = [u \in Users |-> NewCursor]
  /\ procs = [p \in Procs |-> Idle]
  /\ ops = [sync |-> 0, write |-> 0, flag |-> MaxStuckStarts, token |-> 0, login |-> 0,
            total |-> 0]
  /\ last = NoLast
  /\ oauth_states = {}
  /\ webhook_subscriptions = {}

NextStuck ==
  \/ \E u \in Users : StartSyncForUser(u)
  \/ \E u \in Users, ok \in BOOLEAN : CompleteSyncForUser(u, ok)
  \/ \E u \in Active, ok \in BOOLEAN : SyncWithGoogle(u, ok)
  \/ CleanupData
  \/ StuckTick

\* time passes, and the operator runs the maintenance script again and again;
\* nothing makes the holder of a flag report its end, and nothing makes a
\* client ask for a sync
SpecStuck ==
  /\ InitStuck /\ [][NextStuck]_vars
  /\ WF_vars(StuckTick) /\ WF_vars(CleanupData)

\* ------------------------------------------------------------------ vault
\* strings are sequences of characters; bytes are 0..3 and a byte is written
\* as one digit in hex
SeqsUpTo(S, n) == UNION { [1..k -> S] : k \in 0..n }
Bytes == 0..(ByteCount - 1)
PlainChars == {"a", "b"}
HexDigits == <<"0", "1", "2", "3">>

\* text.toString / Buffer.from(text, 'utf8'): the byte of each character, and
\* back, where a byte that encodes no character reads as the replacement
\* character
utf8(text) == [i \in 1..Len(text) |-> IF text[i] = "a" THEN 1 ELSE 2]
fromUtf8(bytes) ==
  [i \in 1..Len(bytes) |-> CASE bytes[i] = 1 -> "a" [] bytes[i] = 2 -> "b" [] OTHER -> "?"]

\* the 'hex' output and input encodings
toHex(bytes) == [i \in 1..Len(bytes) |-> HexDigits[bytes[i] + 1]]
fromHex(digits) ==
  [i \in 1..Len(digits) |-> CHOOSE b \in Bytes : HexDigits[b + 1] = digits[i]]

\* the block cipher under the key createCipher derives from ENCRYPTION_KEY: a
\* bijection on blocks, and its inverse
Sbox == <<2, 0, 3, 1>>
SboxInv == <<1, 3, 0, 2>>
EncBlock(b) == <<Sbox[b[2] + 1], Sbox[((b[1] + b[2]) % ByteCount) + 1]>>
DecBlock(c) ==
  LET y == SboxInv[c[1] + 1]
      x == (SboxInv[c[2] + 1] - y + ByteCount) % ByteCount
  IN <<x, y>>

\* the IV createCipher and createDecipher derive from the key (the random iv
\* of encrypt is not given to the cipher)
DerivedIv == <<3, 1>>

\* padding of cipher.final: n bytes of value n, n in 1..BlockSize
Pad(bytes) ==
  LET n == BlockSize - (Len(bytes) % BlockSize) IN bytes \o [i \in 1..n |-> n]

\* the unpadded bytes (decipher.final accepts the padding as it finds it)
UnpadUnchecked(bytes) ==
  [ok |-> Len(bytes) > 0, bytes |-> bytes]

\* decipher.final: fails on a malformed padding, else strips it
Unpad(bytes) ==
  IF Len(bytes) = 0 THEN [ok |-> FALSE, bytes |-> <<>>]
  ELSE LET n == bytes[Len(bytes)] IN
       IF n \in 1..BlockSize /\ n <= Len(bytes)
          /\ \A i \in (Len(bytes) - n + 1)..Len(bytes) : bytes[i] = n
         THEN [ok |-> TRUE, bytes |-> SubSeq(bytes, 1, Len(bytes) - n)]
         ELSE [ok |-> FALSE, bytes |-> <<>>]

\* aes-256-cbc over whole blocks: each block is combined with the previous
\* cipher block before the block cipher
RECURSIVE cbcEncrypt(_, _)
cbcEncrypt(bytes, prev) ==
  IF bytes = <<>> THEN <<>>
  ELSE LET c == EncBlock(<<(bytes[1] + prev[1]) % ByteCount, (bytes[2] + prev[2]) % ByteCount>>)
       IN c \o cbcEncrypt(SubSeq(bytes, BlockSize + 1, Len(bytes)), c)

RECURSIVE cbcDecrypt(_, _)
cbcDecrypt(bytes, prev) ==
  IF bytes = <<>> THEN <<>>
  ELSE LET c == SubSeq(bytes, 1, BlockSize)
           d == DecBlock(c)
       IN <<(d[1] - prev[1] + ByteCount) % ByteCount, (d[2] - prev[2] + ByteCount) % ByteCount>>
            \o cbcDecrypt(SubSeq(bytes, BlockSize + 1, Len(bytes)), c)

\* cipher.update + cipher.final, decipher.update + decipher.final (final fails
\* unless the input is a positive whole number of blocks)
cipher(bytes) == cbcEncrypt(Pad(bytes), DerivedIv)
decipher(bytes) ==
  IF Len(bytes) = 0 \/ Len(bytes) % BlockSize # 0 THEN [ok |-> FALSE, bytes |-> <<>>]
  ELSE Unpad(cbcDecrypt(bytes, DerivedIv))

\* encryptedText.split(':')
RECURSIVE split(_)
split(value) ==
  IF \A i \in 1..Len(value) : value[i] # ":" THEN <<value>>
  ELSE LET k == CHOOSE i \in 1..Len(value) :
                  value[i] = ":" /\ \A j \in 1..(i - 1) : value[j] # ":"
       IN <<SubSeq(value, 1, k - 1)>> \o split(SubSeq(value, k + 1, Len(value)))

\* TokenService.encrypt with the iv randomBytes returned
encrypt(text, iv) == toHex(iv) \o <<":">> \o toHex(cipher(utf8(text)))

\* TokenService.decrypt: every failure is rethrown as InternalServerError
decrypt(value) ==
  LET parts == split(value) IN
  IF Len(parts) # 2 THEN [ok |-> FALSE, err |-> InternalServerError]
  ELSE LET r == decipher(fromHex(parts[2])) IN
       IF r.ok THEN [ok |-> TRUE, text |-> fromUtf8(r.bytes)]
       ELSE [ok |-> FALSE, err |-> InternalServerError]

\* the values a caller can hand to decrypt: any short string of hex digits and
\* colons, or what encrypt returned in the step before
StoredValues == SeqsUpTo({"0", "1", "2", "3", ":"}, MaxValueLen)

Encrypt(text, iv) ==
  /\ ops.vault > 0
  /\ ops' = [ops EXCEPT !.vault = @ - 1]
  /\ last' = [op |-> "encrypt", text |-> text, value |-> encrypt(text, iv)]
  /\ UNCHANGED <<users, now, events, nextId, upstream, upVer, cursor, procs, oauth_states,
                 webhook_subscriptions>>

Decrypt(value) ==
  /\ ops.vault > 0
  /\ ops' = [ops EXCEPT !.vault = @ - 1]
  /\ last' = [op |-> "decrypt", value |-> value, res |-> decrypt(value)]
  /\ UNCHANGED <<users, now, events, nextId, upstream, upVer, cursor, procs, oauth_states,
                 webhook_subscriptions>>

InitVault ==
  /\ users \in [Users -> SignInRows(BufferTime - Lifetime, {1})]
  /\ \A u \in Users : users[u].token_expires_at = NoTime
  /\ now = 0
  /\ events = {}
  /\ nextId = 1
  /\ upstream = [u \in Users |-> [g \in GIds |-> NoEvent]]
  /\ upVer = [u \in Users |-> 0]
  /\ cursor = [u \in Users |-> NewCursor]
  /\ procs = [p \in Procs |-> Idle]
  /\ ops = [sync |-> 0, write |-> 0, flag |-> 0, token |-> 0, login |-> 0,
            vault |-> MaxVaultOps, total |-> MaxVaultOps]
  /\ last = NoLast
  /\ oauth_states = {}
  /\ webhook_subscriptions = {}

NextVault ==
  \/ \E text \in SeqsUpTo(PlainChars, MaxPlainLen), iv \in [1..IvLength -> Bytes] :
       Encrypt(text, iv)
  \/ \E value \in StoredValues \cup (IF last.op = "encrypt" THEN {last.value} ELSE {}) :
       Decrypt(value)

SpecVault == InitVault /\ [][NextVault]_vars

\* ---------------------------------------------------------------- webhook
\* a POST /api/v1/calendar/webhook: the session cookie or bearer token it
\* carries (NULL: none, else the user the JWT names) and the X-Goog-* headers
\* (NULL: header absent)
WebhookRequests ==
  [cred : {NULL} \cup Users,
   resourceState : {NULL, "sync", "exists", "not_exists"},
   resourceId : {NULL, "r1"},
   resourceUri : {NULL, "uri"},
   channelToken : {NULL, "t1", "t2"}]

\* webhook_subscriptions rows (expiration NoTime: NULL)
SubscriptionRows ==
  [user_id : Users, token : {"t1"}, resource_id : {"r1"}, is_active : BOOLEAN,
   expiration : {NoTime, 0}]

\* get_webhook_by_token_and_resource: the subscriptions that are active and
\* have not expired
ActiveSubscriptions(token, resourceId) ==
  { w \in webhook_subscriptions :
      /\ w.token = token /\ w.resource_id = resourceId
      /\ w.is_active
      /\ (w.expiration = NoTime \/ w.expiration > now) }

\* extractUserIdFromWebhook: the users the SELECT's first row can name (none
\* without a channel token or without a matching row)
extractUserIdFromWebhook(token, resourceId) ==
  IF token = NULL THEN {NULL}
  ELSE LET rows == { w \in webhook_subscriptions :
                       w.token = token /\ w.resource_id = resourceId }
       IN IF rows = {} THEN {NULL} ELSE { w.user_id : w \in rows }

\* the status the calendar router's middleware answers with, 0 when the
\* request is passed on to the route: authenticateToken, requireCalendarAccess
\* (ensureValidToken; a refresh ends in storeTokens, which fails), and
\* autoRefreshTokens, which lets every request pass
CalendarMiddleware(req) ==
  IF req.cred = NULL THEN 401
  ELSE IF users[req.cred].access_token = NoToken THEN 401
  ELSE IF NeedsRefresh(users[req.cred], now)
    THEN (IF users[req.cred].refresh_token = NoToken THEN 401 ELSE 500)
  ELSE 0

\* the middleware a request to /calendar/webhook passes before a handler: the
\* calendar router is mounted on /calendar before the webhook router and
\* applies its middleware to every request under that path
RouteWebhook(req) == CalendarMiddleware(req)

\* CalendarController.handleWebhook: the outcomes of a request that reached it
HandleWebhookOutcomes(req) ==
  IF req.resourceState = NULL \/ req.resourceId = NULL \/ req.resourceUri = NULL
    THEN { [status |-> 400, reached |-> TRUE, sync |-> NULL] }
    ELSE IF req.resourceState \in {"sync", "exists"}
      THEN { [status |-> 200, reached |-> TRUE, sync |-> u] :
               u \in extractUserIdFromWebhook(req.channelToken, req.resourceId) }
      ELSE { [status |-> 200, reached |-> TRUE, sync |-> NULL] }

WebhookOutcomes(req) ==
  IF RouteWebhook(req) # 0
    THEN { [status |-> RouteWebhook(req), reached |-> FALSE, sync |-> NULL] }
    ELSE HandleWebhookOutcomes(req)

\* one notification from its arrival to the start of the sync it triggers; the
\* answer after a triggered sync is 200 whether syncWithGoogle returns or
\* throws, so it is recorded with the trigger
Webhook(p, req) ==
  /\ Begin(p, "webhook")
  /\ \E o \in WebhookOutcomes(req) :
       /\ last' = [op |-> "webhook", req |-> req, status |-> o.status, reached |-> o.reached,
                   sync |-> o.sync]
       /\ IF o.sync = NULL THEN procs' = procs ELSE SetProc(p, SyncEntry(o.sync, FALSE))
  /\ UNCHANGED <<users, now, events, nextId, upstream, upVer, cursor, oauth_states,
                 webhook_subscriptions>>

InitWebhook ==
  /\ users \in [Users -> SignInRows(BufferTime - Lifetime, {1})]
  /\ now = 0
  /\ events = {}
  /\ nextId = 1
  /\ upstream = [u \in Users |-> [g \in GIds |->
                    IF g = "g1"
                      THEN [st |-> "confirmed", title |-> "T", upd |-> 0, chg |-> 1,
                            start |-> 0, end |-> 1]
                      ELSE NoEvent]]
  /\ upVer = [u \in Users |-> 1]
  /\ cursor = [u \in Users |-> NewCursor]
  /\ procs = [p \in Procs |-> Idle]
  /\ ops = [sync |-> 0, write |-> 0, flag |-> 0, token |-> 0, login |-> 0,
            webhook |-> MaxWebhooks, total |-> MaxWebhooks]
  /\ last = NoLast
  /\ oauth_states = {}
  /\ webhook_subscriptions \in { S \in SUBSET SubscriptionRows : Cardinality(S) <= MaxSubscriptions }

NextWebhook ==
  \/ \E p \in Procs, req \in WebhookRequests : Webhook(p, req)
  \/ \E p \in Procs : SyncList(p)
  \/ \E p \in Procs : SyncItem(p)
  \/ \E p \in Procs : SyncWrite(p)
  \/ \E p \in Procs : SyncUpdateState(p)
  \/ Tick

SpecWebhook == InitWebhook /\ [][NextWebhook]_vars

\* ------------------------------------------------------------- getEvents
\* query parameters; NoTime / NULL stand for an absent parameter
GetParams ==
  [page : {1, 2}, limit : {1, DefaultLimit}, startDate : {NoTime, 1}, endDate : {NoTime, 1},
   search : {NULL, "t"}]

\* the letters of the titles in use, lower-cased (ILIKE ignores case)
LowerChars(title) ==
  CASE title = "T" -> <<"t">>
    [] title = "U" -> <<"u">>
    [] title = "Untitled Event" ->
         <<"u", "n", "t", "i", "t", "l", "e", "d", " ", "e", "v", "e", "n", "t">>
    [] OTHER -> <<>>

\* title ILIKE '%search%' for a one-letter search term
ILike(title, search) == \E i \in 1..Len(LowerChars(title)) : LowerChars(title)[i] = search

\* the rows getEvents' WHERE clause selects
Selected(u, params) ==
  { r \in events :
      /\ r.user = u
      /\ params.startDate # NoTime => r.start >= params.startDate
      /\ params.endDate # NoTime => r.end <= params.endDate
      /\ params.search # NULL => ILike(r.title, params.search) }

\* ORDER BY start_date ASC (rows with equal start in either order)
Ordered(S) ==
  { s \in [1..Cardinality(S) -> S] :
      /\ \A i, j \in 1..Cardinality(S) : i # j => s[i] # s[j]
      /\ \A i, j \in 1..Cardinality(S) : i < j => s[i].start <= s[j].start }

\* a query that leaves out the owner condition (C18 must tell this variant apart)
getEventsOfAnyOwner(u, params) ==
  LET S == { r \in events :
               /\ params.startDate # NoTime => r.start >= params.startDate
               /\ params.endDate # NoTime => r.end <= params.endDate
               /\ params.search # NULL => ILike(r.title, params.search) }
      offset == (params.page - 1) * params.limit
  IN { { s[i] : i \in { k \in 1..Cardinality(S) : k > offset /\ k <= offset + params.limit } } :
       s \in Ordered(S) }

\* getEvents: the pages the query can return (status and source filters are
\* left out with the columns they read)
getEvents(u, params) ==
  LET S == Selected(u, params)
      offset == (params.page - 1) * params.limit
  IN { { s[i] : i \in { k \in 1..Cardinality(S) : k > offset /\ k <= offset + params.limit } } :
       s \in Ordered(S) }

\* JavaScript's < on numbers: false when an operand is NaN
Less(a, b) == a # NaN /\ b # NaN /\ a < b

\* the rows of the count query. The query text has SELECT and FROM on different
\* lines, so replace(/SELECT .* FROM/, ...) finds nothing to replace (. stops
\* at a line end); the second replace removes the ORDER BY ... OFFSET line. The
\* count query is the select itself without order, limit and offset.
countQuery(u, params) == Selected(u, params)

\* total = countResult.rows.length > 0 ? parseInt(countResult.rows[0].count) : 0
\* where the rows have no count column, and the pagination record built on it
pagination(u, params) ==
  LET countRows == countQuery(u, params)
      total == IF countRows # {} THEN NaN ELSE 0
      offset == (params.page - 1) * params.limit
  IN [page |-> params.page, limit |-> params.limit, total |-> total,
      hasNext |-> Less(offset + params.limit, total),
      hasPrev |-> params.page > 1]

GetEvents(u, params) ==
  /\ ops.get > 0
  /\ ops' = [ops EXCEPT !.get = @ - 1]
  /\ \E rows \in getEvents(u, params) :
       last' = [op |-> "get", u |-> u, params |-> params, rows |-> rows,
                pagination |-> pagination(u, params)]
  /\ UNCHANGED <<users, now, events, nextId, upstream, upVer, cursor, procs>>
  /\ UNCHANGED <<oauth_states, webhook_subscriptions>>

\* CalendarController.getEvent: the answers to GET /calendar/events/{eventId}.
\* It reads getEvents(user.id, { limit: 1 }), the first page of one row, and
\* looks for the id in that page.
getEvent(u, eventId) ==
  LET params == [page |-> 1, limit |-> 1, startDate |-> NoTime, endDate |-> NoTime,
                 search |-> NULL]
  IN { IF \E e \in rows : e.id = eventId
         THEN [ok |-> TRUE, event |-> CHOOSE e \in rows : e.id = eventId]
         ELSE [ok |-> FALSE, err |-> NotFoundError] :
       rows \in getEvents(u, params) }

GetEvent(u, eventId) ==
  /\ ops.get > 0
  /\ ops' = [ops EXCEPT !.get = @ - 1]
  /\ \E res \in getEvent(u, eventId) :
       last' = [op |-> "getEvent", u |-> u, id |-> eventId, res |-> res]
  /\ UNCHANGED <<users, now, events, nextId, upstream, upVer, cursor, procs>>
  /\ UNCHANGED <<oauth_states, webhook_subscriptions>>

\* two users, each with a local event and an imported one, reading the list and
\* updating and deleting by event id
OwnerRows ==
  { Row(0, "u1", NULL, "T", 0, 1, 0), Row(1, "u1", "g1", "U", 1, 2, 0),
    Row(2, "u2", NULL, "T", 0, 1, 0), Row(3, "u2", "g1", "T", 0, 1, 0) }

InitOwner ==
  /\ users \in [Users -> SignInRows(BufferTime - Lifetime, {1})]
  /\ now = 0
  /\ events = OwnerRows
  /\ nextId = 4
  /\ upstream = [u \in Users |-> [g \in GIds |->
                    IF g = "g1"
                      THEN [st |-> "confirmed", title |-> IF u = "u1" THEN "U" ELSE "T",
                            upd |-> 0, chg |-> 0,
                            start |-> IF u = "u1" THEN 1 ELSE 0, end |-> IF u = "u1" THEN 2 ELSE 1]
                      ELSE NoEvent]]
  /\ upVer = [u \in Users |-> 0]
  /\ cursor = [u \in Users |-> updateSyncState(NewCursor, 0, TRUE, NULL, 0)]
  /\ procs = [p \in Procs |-> Idle]
  /\ ops = [sync |-> 0, write |-> MaxOwnerWrites, flag |-> 0, token |-> 0, login |-> 0,
            total |-> MaxOwnerWrites, get |-> MaxGets]
  /\ last = NoLast
  /\ oauth_states = {}
  /\ webhook_subscriptions = {}

NextOwner ==
  \/ \E u \in Users, params \in GetParams : GetEvents(u, params)
  \/ \E u \in Users, id \in 0..nextId : GetEvent(u, id)
  \/ \E p \in Procs, u \in Users, id \in 0..(nextId - 1), d \in UpdateInputs : UpdateStart(p, u, id, d)
  \/ \E p \in Procs : UpdateUpstream(p)
  \/ \E p \in Procs : UpdateLocal(p)
  \/ \E p \in Procs, u \in Users, id \in 0..(nextId - 1) : DeleteStart(p, u, id)
  \/ \E p \in Procs : DeleteUpstream(p)
  \/ \E p \in Procs : DeleteLocal(p)

SpecOwner == InitOwner /\ [][NextOwner]_vars

\* the error of a statement the database did not run
ConnectionFailure == [code |-> "08006", msg |-> "connection failure"]

\* createEvent when its INSERT or COMMIT fails in the database: the catch
\* block rolls the local transaction back and rethrows
CreateLocalRejected(p) ==
  /\ procs[p].op = "create" /\ procs[p].pc = "local"
  /\ last' = DoneCreate(procs[p].u, FALSE, ConnectionFailure, TRUE, TRUE, FALSE,
                        RowsOf(procs[p].u, procs[p].gid) # {}, procs[p].gid, procs[p].d)
  /\ SetProc(p, Idle)
  /\ UNCHANGED <<users, now, events, nextId, upstream, upVer, cursor, ops>>
  /\ UNCHANGED <<oauth_states, webhook_subscriptions>>

\* updateEvent when its UPDATE or COMMIT fails in the database
UpdateLocalRejected(p) ==
  /\ procs[p].op = "update" /\ procs[p].pc = "local"
  /\ last' = Done("update", procs[p].u, procs[p].id, FALSE, ConnectionFailure,
                  procs[p].ex.gid # NULL, procs[p].upAck, FALSE, FALSE, procs[p].ex.gid)
  /\ SetProc(p, Idle)
  /\ UNCHANGED <<users, now, events, nextId, upstream, upVer, cursor, ops>>
  /\ UNCHANGED <<oauth_states, webhook_subscriptions>>

\* a user with a local event and an imported one creating or updating an event
InitRollback ==
  /\ users \in [Users -> SignInRows(BufferTime - Lifetime, {1})]
  /\ now = 0
  /\ events = OwnerRows
  /\ nextId = 4
  /\ upstream = [u \in Users |-> [g \in GIds |->
                    IF g = "g1"
                      THEN [st |-> "confirmed", title |-> IF u = "u1" THEN "U" ELSE "T",
                            upd |-> 0, chg |-> 0,
                            start |-> IF u = "u1" THEN 1 ELSE 0, end |-> IF u = "u1" THEN 2 ELSE 1]
                      ELSE NoEvent]]
  /\ upVer = [u \in Users |-> 0]
  /\ cursor = [u \in Users |-> updateSyncState(NewCursor, 0, TRUE, NULL, 0)]
  /\ procs = [p \in Procs |-> Idle]
  /\ ops = [sync |-> 0, write |-> MaxRollbackWrites, flag |-> 0, token |-> 0, login |-> 0,
            total |-> MaxRollbackWrites]
  /\ last = NoLast
  /\ oauth_states = {}
  /\ webhook_subscriptions = {}

NextRollback ==
  \/ \E p \in Procs, u \in Active, d \in CreateInputs : CreateStart(p, u, d)
  \/ \E p \in Procs : CreateUpstream(p)
  \/ \E p \in Procs : CreateLocal(p)
  \/ \E p \in Procs : CreateLocalRejected(p)
  \/ \E p \in Procs, u \in Active, id \in 0..(nextId - 1), d \in UpdateInputs : UpdateStart(p, u, id, d)
  \/ \E p \in Procs : UpdateUpstream(p)
  \/ \E p \in Procs : UpdateLocal(p)
  \/ \E p \in Procs : UpdateLocalRejected(p)

SpecRollback == InitRollback /\ [][NextRollback]_vars

\* two sync requests of one user against an upstream that stands still while
\* they run. The user is new, or was synced when the upstream held one event;
\* the upstream changes only before the first request arrives. ops remembers
\* the replica and the cursor token the requests started from and the option
\* both carry.
InitPair ==
  /\ users \in [Users -> SignInRows(BufferTime - Lifetime, {1})]
  /\ \A u \in Users : users[u].token_expires_at = NoTime
  /\ now = 0
  /\ nextId = 1
  /\ upVer = [u \in Users |-> 0]
  /\ procs = [p \in Procs |-> Idle]
  /\ last = NoLast
  /\ oauth_states = {}
  /\ webhook_subscriptions = {}
  /\ \E synced \in BOOLEAN, f \in BOOLEAN :
       /\ events = IF synced THEN {Row(0, "u1", "g1", "T", 0, 1, 0)} ELSE {}
       /\ upstream = [u \in Users |-> [g \in GIds |->
                        IF synced /\ u = "u1" /\ g = "g1"
                          THEN [st |-> "confirmed", title |-> "T", upd |-> 0, chg |-> 0,
                                start |-> 0, end |-> 1]
                          ELSE NoEvent]]
       /\ cursor = [u \in Users |->
                      IF synced /\ u = "u1"
                        THEN updateSyncState(NewCursor, 0, TRUE, NULL, 0)
                        ELSE NewCursor]
       /\ ops = [sync |-> MaxPairSyncs, write |-> 0, flag |-> 0, token |-> 0, login |-> 0,
                 total |-> MaxPairSyncs, fullSync |-> f,
                 base |-> IF synced THEN {Row(0, "u1", "g1", "T", 0, 1, 0)} ELSE {},
                 tok |-> IF synced THEN 0 ELSE NoToken]

NextPair ==
  \/ \E p \in Procs, u \in Active : SyncStart(p, u, ops.fullSync)
  \/ \E p \in Procs : SyncList(p)
  \/ \E p \in Procs : SyncItem(p)
  \/ \E p \in Procs : SyncWrite(p)
  \/ \E p \in Procs : SyncUpdateState(p)
  \/ \E u \in Active, g \in GIds : ops.total = MaxPairSyncs /\ UpstreamChange(u, g)
  \/ Tick

SpecPair == InitPair /\ [][NextPair]_vars

\* ================================================================= claims
\* the syncs of user u that are between their start and their updateSyncState
SyncsInFlight(u) ==
  { p \in Procs : procs[p].op = "sync" /\ procs[p].u = u /\ procs[p].pc \in {"list", "item", "write"} }

\* C1: for any user at most one sync (syncWithGoogle) is in flight at a time;
\* of two sync requests arriving together exactly one proceeds.
C1_OneSyncInFlight ==
  \A u \in Users : Cardinality(SyncsInFlight(u)) <= 1

C3_FailureCursor ==
  (last.op = "sync" /\ ~last.res.success) =>
    /\ cursor[last.u].sync_in_progress = FALSE
    /\ cursor[last.u].sync_error_count = last.before.sync_error_count + 1
    /\ cursor[last.u].sync_error # NULL

WriteOps == {"create", "update", "delete"}

\* the upstream call of the finished write-through request r failed, and not
\* with the 404 / 410 that deleteEvent reads as "already deleted"
UpstreamFailed(r) ==
  /\ r.op \in WriteOps /\ r.upCalled /\ ~r.upAck
  /\ ~(r.op = "delete" /\ r.err.code \in {"404", "410"})

\* the upstream took the mutation of r (or, for a delete, no longer has the event)
UpstreamAccepted(r) ==
  r.upAck \/ (r.op = "delete" /\ r.err.code \in {"404", "410"})

\* the errors a call through executeWithRetry can throw
ThrownByRetry == { r.err : r \in { x \in RetryResults : ~x.ok } }

\* C4: the local replica holds no effect of a write-through whose upstream call
\* failed: a request whose upstream call failed leaves the event rows as they
\* were and returns the classified error, a write-through that changes a row
\* with an upstream id has the upstream's acknowledgment, and every local row
\* with an upstream id is an event the upstream holds.
C4_NoRejectedWrite ==
  [][ /\ UpstreamFailed(last') =>
           (events' = events /\ ~last'.ok /\ ~last'.applied /\ last'.err \in ThrownByRetry)
      /\ (last'.op \in WriteOps /\ last'.upCalled /\ (last'.ok \/ events' # events)) =>
           UpstreamAccepted(last')
      /\ \A r \in events' : r.gid # NULL => upstream'[r.user][r.gid].st # "none" ]_vars

\* an update of a row with an upstream id was refused upstream
C4_Witness ==
  /\ last.op = "update" /\ last.upCalled /\ ~last.upAck /\ last.err.code = "500"
  /\ \E r \in events : r.id = last.id /\ r.gid # NULL

\* C5: under any interleaving, createEvent / updateEvent / deleteEvent report
\* success if and only if the upstream accepted the mutation and the local
\* replica reflects it when the operation returns.
C5_SuccessIffBoth ==
  (last.op \in WriteOps /\ last.upCalled) =>
    (last.ok <=> (UpstreamAccepted(last) /\ last.reflected))

\* C6: after a successful deleteEvent(U, id) no local row (U, id) exists and, if
\* the event had an upstream id, the upstream delete succeeded or answered
\* 404 / 410; a 404 / 410 is a success that still deletes the row; any other
\* upstream failure leaves the rows in place and surfaces the error.
C6_DeleteContract ==
  [][ last'.op = "delete" =>
        /\ last'.ok =>
             /\ { r \in events' : r.id = last'.id /\ r.user = last'.u } = {}
             /\ last'.gid # NULL =>
                  /\ last'.upAck \/ last'.err.code \in {"404", "410"}
                  /\ upstream'[last'.u][last'.gid].st # "confirmed"
        /\ (last'.upCalled /\ ~last'.upAck) =>
             IF last'.err.code \in {"404", "410"}
               THEN last'.ok
               ELSE ~last'.ok /\ events' = events /\ last'.err \in ThrownByRetry ]_vars

\* a delete that the upstream answered with 410 returned successfully
C6_Witness ==
  last.op = "delete" /\ last.ok /\ last.gid # NULL /\ last.err.code = "410"

\* C7: createEvent rejects with a validation error, before any upstream call
\* and with no row created, exactly when the title is blank, end < start or an
\* attendee email is malformed; end = start passes validation.
C7_ValidationExact ==
  [][ last'.op = "create" =>
        /\ (last'.err = BadRequestError) <=>
             (last'.dig.blank \/ last'.dig.cmp = "lt" \/ last'.dig.badMail)
        /\ (last'.err = BadRequestError) => (~last'.upCalled /\ events' = events) ]_vars

\* C8: whenever ensureValidToken returns an access token at time t (the stored
\* one as it is, or one it has just refreshed), that token's expiry is at least
\* t + 5 minutes.
C8_ReturnedTokenValid ==
  (last.op = "ensure" /\ last.ok) => last.token >= last.t + BufferTime

\* the upstream refresh requests of user u that are in flight
RefreshesInFlight(u) ==
  { p \in Procs : procs[p].op = "refresh" /\ procs[p].u = u /\ procs[p].pc = "upstream" }

\* C9: for any user, concurrent ensureValidToken / refresh invocations have at
\* most one upstream token-refresh request in flight at a time.
C9_SingleFlightRefresh ==
  \A u \in Users : Cardinality(RefreshesInFlight(u)) <= 1

C11_FallbackToFull ==
  last.op = "sync" =>
    /\ ~last.staleEnd
    /\ (last.fb /\ last.res.success) =>
         /\ last.res.nextSyncToken # NoToken
         /\ cursor[last.u].next_sync_token = last.res.nextSyncToken
         /\ cursor[last.u].full_sync_completed
         /\ cursor[last.u].sync_error_count = 0

\* a sync that fell back to a full sync imported an event and returned
C11_Witness ==
  last.op = "sync" /\ last.fb /\ last.res.success /\ last.res.created > 0

\* the syncs that are between their first list call and their updateSyncState
InSync(p) == procs[p].op = "sync" /\ procs[p].pc \in {"list", "item", "write"}

\* C12: a per-item failure is recorded in the result's errors and does not
\* abort the sync: every item delivered so far is processed, recorded as failed
\* or still waiting; after an item fails the remaining items of the page and
\* the later pages are still to be processed; an item that is processed as new
\* or changed is in the local replica; a sync whose list calls all succeeded
\* ends successfully with every delivered item processed or recorded as failed.
C12_ItemErrorsCollected ==
  [][ /\ \A p \in Procs :
           (procs'[p].op = "sync" /\ procs'[p].pc \in {"list", "item", "write"}) =>
             procs'[p].dl = procs'[p].res.processed + procs'[p].res.nerr + Len(procs'[p].page)
      /\ \A p \in Procs :
           (InSync(p) /\ procs[p].pc = "write" /\ procs'[p] # procs[p]) =>
             LET pr == procs[p]
                 g == Head(pr.page)
             IN /\ procs'[p].res.nerr + procs'[p].res.processed =
                     pr.res.nerr + pr.res.processed + 1
                /\ procs'[p].res.processed = pr.res.processed + 1 =>
                     \E r \in events' : r.user = pr.u /\ r.gid = g.id
                                        /\ r.start = g.start /\ r.end = g.end
                /\ IF Tail(pr.page) # <<>>
                     THEN procs'[p].pc = "item" /\ procs'[p].page = Tail(pr.page)
                                                /\ procs'[p].rest = pr.rest
                     ELSE IF pr.rest # <<>>
                       THEN procs'[p].pc = "list" /\ procs'[p].rest = pr.rest
                       ELSE procs'[p].pc = "update" /\ procs'[p].res.success
      /\ (last'.op = "sync" /\ last'.res.success) =>
           last'.dl = last'.res.processed + last'.res.nerr ]_vars

\* a sync in which an item failed processed another item and ended successfully
C12_Witness ==
  last.op = "sync" /\ last.res.success /\ last.res.nerr > 0 /\ last.res.processed > 0

\* the sync that just returned ran incrementally to its end from a token that
\* is still the upstream's current one: nothing changed upstream since the
\* sync that stored the token
SecondRunNoChanges ==
  /\ last.op = "sync" /\ last.res.success
  /\ last.tok # NoToken /\ ~last.fb
  /\ last.tok = upVer[last.u]

\* C13: an incremental sync run again with no upstream change in between
\* reports eventsCreated = eventsUpdated = eventsDeleted = 0 and touches no
\* local event (no item is delivered to it).
C13_IncrementalIdempotent ==
  SecondRunNoChanges =>
    /\ last.res.created = 0 /\ last.res.updated = 0 /\ last.res.deleted = 0
    /\ last.dl = 0 /\ last.res.nerr = 0
    /\ cursor[last.u].next_sync_token = last.tok

\* the third sync of a user whose replica holds imported events ran
\* incrementally with nothing changed upstream
C13_Witness ==
  /\ SecondRunNoChanges
  /\ ops.sync = MaxSyncs - 3 /\ \A p \in Procs : procs[p] = Idle
  /\ \E r \in events : r.user = last.u /\ r.gid # NULL

\* what an observer compares of a local row
View(r) == [gid |-> r.gid, title |-> r.title, start |-> r.start, end |-> r.end]

\* the upstream-backed part of the replica a full sync of the current upstream
\* state produces from an empty replica
FreshFullSyncView(u) ==
  { [gid |-> g, title |-> mapGoogleEventToInput(Item(u, g)).title,
     start |-> upstream[u][g].start, end |-> upstream[u][g].end] :
      g \in { h \in GIds : upstream[u][h].st = "confirmed" } }

\* C14: after an incremental sync received a cursor invalidation and the sync
\* completed successfully, the user's replica is the one a fresh full sync of
\* the same upstream state produces: the same upstream-backed events with the
\* same field values, events deleted upstream being absent.
C14_RecoveryEqualsFullSync ==
  ( /\ last.op = "sync" /\ last.fb /\ last.res.success /\ last.res.nerr = 0
    /\ upVer[last.u] = last.res.nextSyncToken
    /\ \A p \in Procs : procs[p] = Idle )
  => { View(r) : r \in { x \in events : x.user = last.u /\ x.gid # NULL } }
       = FreshFullSyncView(last.u)

\* what one sync of the given mode, run alone from the replica the two requests
\* started from, leaves of the user's upstream-backed rows: the rows of the
\* items not delivered stay, a delivered existing event is inserted or (when
\* newer than the row) rewritten, a delivered cancellation removes the row
SingleRunView(u, mode) ==
  LET delivered == IF mode = "full"
                     THEN { g \in GIds : upstream[u][g].st = "confirmed" }
                     ELSE { g \in GIds : upstream[u][g].st # "none" /\ upstream[u][g].chg > ops.tok }
      old(g) == { r \in ops.base : r.user = u /\ r.gid = g }
      mapped(g) == [gid |-> g, title |-> mapGoogleEventToInput(Item(u, g)).title,
                    start |-> upstream[u][g].start, end |-> upstream[u][g].end]
  IN { View(r) : r \in { x \in ops.base : x.user = u /\ x.gid \notin delivered } }
       \cup UNION { IF \E r \in old(g) : ~(upstream[u][g].upd > r.lm)
                      THEN { View(r) : r \in old(g) }
                      ELSE { mapped(g) } :
                    g \in { h \in delivered : upstream[u][h].st = "confirmed" } }

\* the modes a single sync started from that cursor can run in: full when asked
\* for or when there is no token, else incremental or, on a token the upstream
\* refuses, full
SingleRunModes == IF ops.fullSync \/ ops.tok = NoToken THEN {"full"} ELSE {"incr", "full"}

PairDone ==
  /\ ops.sync = 0 /\ \A p \in Procs : procs[p] = Idle
  /\ last.op = "sync" /\ last.res.success

ViolatingUpdate(p) ==
  /\ procs[p].op = "update" /\ procs[p].pc = "local" /\ procs'[p] = Idle
  /\ \E r \in events :
       /\ r.id = procs[p].id /\ r.user = procs[p].u
       /\ SparseUpdate(procs[p].d, r, now).end < SparseUpdate(procs[p].d, r, now).start

\* C16: whatever createEvent, updateEvent (with any subset of start / end),
\* deleteEvent and sync do, every stored event ends no earlier than it starts;
\* a create or update that would store an end before the start is rejected
\* and the rows stay as they were.
C16_EndNotBeforeStart ==
  /\ [](\A r \in events : r.end >= r.start)
  /\ [][ /\ (\E p \in Procs : ViolatingUpdate(p)) =>
              last'.op = "update" /\ ~last'.ok /\ events' = events
         /\ (last'.op = "create" /\ last'.dig.cmp = "lt") =>
              ~last'.ok /\ events' = events ]_vars

\* an update that moved the start of a stored event behind its end was refused
C16_Witness == last.op = "update" /\ last.err = CheckViolation /\ events # {}

\* C17: however createEvent and the syncs (manual or webhook-triggered, both
\* run syncWithGoogle) interleave, no two rows of one owner carry the same
\* non-null upstream id.
C17_UniqueUpstreamId ==
  \A r1 \in events, r2 \in events :
    (r1.user = r2.user /\ r1.gid # NULL /\ r1.gid = r2.gid) => r1 = r2

\* createEvent's INSERT met the row a sync had inserted for the same upstream
\* event in the meantime, and was refused
C17_Witness ==
  /\ last.op = "create" /\ last.err = UniqueViolation
  /\ \E r \in events : r.user = last.u /\ r.gid # NULL /\ r.gid = last.gid

\* the request that returned in this step named an event id held by a row of
\* another user
ForeignTarget ==
  /\ last'.op \in {"update", "delete"}
  /\ \E r \in events : r.id = last'.id /\ r.user # last'.u

\* C18: for users U and V, U # V: getEvents for U returns no event of V under
\* any filter and page; updateEvent and deleteEvent by U with the id of V's
\* event fail with not-found, call the upstream not at all and leave the rows
\* and the upstream as they were.
C18_OwnerIsolation ==
  [][ /\ last'.op = "get" => \A r \in last'.rows : r.user = last'.u
      /\ ForeignTarget =>
           /\ ~last'.ok /\ last'.err = NotFoundError
           /\ ~last'.upCalled
           /\ events' = events /\ upstream' = upstream
           /\ \A p \in Procs : procs'[p] = procs[p] ]_vars

\* a user got not-found for the id of another user's imported event
C18_Witness ==
  /\ last.op \in {"update", "delete"} /\ last.err = NotFoundError
  /\ \E r \in events : r.id = last.id /\ r.user # last.u /\ r.gid # NULL

\* C19: a first failure that is quota-exceeded, auth-failed or of no retried
\* kind ends executeWithRetry after that single invocation, surfacing an
\* internal error, an unauthorized error and the original error respectively;
\* every failure that was followed by another invocation was a rate-limit or
\* a network error.
C19_NoRetryOfFatalErrors ==
  last.op = "retry" =>
    LET first == last.outs[1] IN
    /\ Len(last.outs) >= 1
    /\ isQuotaExceededError(first) => Len(last.outs) = 1 /\ ~last.ok /\ last.err = InternalServerError
    /\ isAuthError(first) => Len(last.outs) = 1 /\ ~last.ok /\ last.err = UnauthorizedError
    /\ (first # OK /\ ~isRateLimitError(first) /\ ~isNetworkError(first)
        /\ ~isQuotaExceededError(first) /\ ~isAuthError(first)) =>
         Len(last.outs) = 1 /\ ~last.ok /\ last.err = first
    /\ \A i \in 1..(Len(last.outs) - 1) :
         last.outs[i].code \in {"429", "ECONNRESET", "ENOTFOUND", "ETIMEDOUT"}
           \/ last.outs[i].msg \in {"rateLimitExceeded", "userRateLimitExceeded", "network", "timeout"}

\* a call allowed to retry ended on a first failure that is a server error
C19_Witness ==
  last.op = "retry" /\ last.n > 0 /\ last.outs = <<[code |-> "500", msg |-> "other"]>>

Returned(p) == procs[p].op = "retry" ~> procs[p] = Idle

\* C20: executeWithRetry returns: with maxRetries = N it invokes the operation
\* at most N + 1 times, returns at the first success without invoking it
\* again, and under rate-limit or network failures that persist it surfaces
\* the last of them after N + 1 invocations and not before.
C20_RetryTerminates ==
  /\ \A p \in Procs : Returned(p)
  /\ [](\A p \in Procs : procs[p].op = "retry" =>
          Len(procs[p].outs) <= procs[p].n + 1 /\ \A i \in 1..Len(procs[p].outs) : procs[p].outs[i] # OK)
  /\ [](last.op = "retry" =>
          /\ Len(last.outs) <= last.n + 1
          /\ [ok |-> last.ok, err |-> last.err, calls |-> Len(last.outs)] = RetryLoop(last.outs, 0, last.n)
          /\ last.ok <=> last.outs[Len(last.outs)] = OK
          /\ \A i \in 1..(Len(last.outs) - 1) : last.outs[i] # OK
          /\ (\A i \in 1..Len(last.outs) : last.outs[i] # OK /\ GoesOn(last.outs[i])) =>
               /\ Len(last.outs) = last.n + 1
               /\ ~last.ok /\ last.err = last.outs[last.n + 1])

\* every allowed attempt was made and failed with a retried error
C20_Witness ==
  /\ last.op = "retry" /\ last.n = MaxRetries /\ Len(last.outs) = MaxRetries + 1
  /\ ~last.ok /\ GoesOn(last.err)

\* C21: an upstream call that fails as auth-failed (401) is invoked a second
\* time, after a forced token refresh, and exactly once more; unauthorized is
\* surfaced only when that second invocation fails as auth-failed too.
C21_AuthFailureRetriedOnce ==
  (last.op = "retry" /\ last.outs[1].code = "401") =>
    /\ Len(last.outs) = 2
    /\ (~last.ok /\ last.err = UnauthorizedError) => last.outs[2].code = "401"

\* the ensureValidToken call returning in this step went through
\* refreshGoogleToken and the row it tested at its start has been replaced since
EnsureInterfered ==
  \E p \in Procs :
    /\ procs[p].op = "refresh" /\ procs[p].caller = "ensure" /\ procs'[p] = Idle
    /\ procs[p].seen # users[procs[p].u]

\* C22: ensureValidToken fails as unauthenticated (401) for a user without a
\* stored access token; for a user with an access token and no refresh token
\* it returns the stored token while that token has more than 5 minutes left
\* and fails (401, no refresh token) once it has less; the stored credentials
\* stay as they were in each case.
C22_EnsureWithoutRefreshToken ==
  [][ (last'.op = "ensure" /\ ~EnsureInterfered) =>
        LET row == users[last'.u] IN
        /\ row.access_token = NoToken =>
             ~last'.ok /\ last'.err = UnauthorizedError /\ users' = users
        /\ (row.access_token # NoToken /\ row.refresh_token = NoToken) =>
             /\ users' = users
             /\ row.access_token - now > BufferTime =>
                  last'.ok /\ last'.token = row.access_token
             /\ row.access_token - now < BufferTime =>
                  ~last'.ok /\ last'.err = UnauthorizedError ]_vars

\* C23: once storeTokens(U, t) has been called for an existing user U,
\* getStoredTokens(U) returns the access token, refresh token and expiry of t
\* and no other user's credentials have changed; getStoredTokens returns none
\* for a user without an access token.
C23_StoreThenLoad ==
  /\ [](\A u \in Users : users[u].access_token = NoToken => getStoredTokens(users, u) = NoTokens)
  /\ [][ \A p \in Procs :
           (procs[p].op = "refresh" /\ procs[p].pc = "store" /\ procs'[p] = Idle) =>
             /\ getStoredTokens(users', procs[p].u) = procs[p].new
             /\ \A v \in Users \ {procs[p].u} : users'[v] = users[v] ]_vars

\* C24: when revokeTokens(U) has been invoked and returns, U's access token,
\* refresh token and expiry are cleared, whether or not the upstream revoked
\* and whether or not the stored tokens could be loaded and unwrapped first;
\* getStoredTokens(U) is then none and the user's row is still there.
C24_RevokeClearsAlways ==
  last.op = "revoke" =>
    /\ last.u \in DOMAIN users
    /\ users[last.u] = CredRow(NoToken, NoToken, NoTime)
    /\ getStoredTokens(users, last.u) = NoTokens

\* C25: validateStateToken accepts an issued state at most once and only
\* before its expiry: it rejects a state that is absent or expired, an
\* accepted state's row is gone afterwards, and a state is never accepted when
\* an earlier callback has already been accepted with it (its row is still
\* there when the acceptance is returned).
C25_StateOneShot ==
  [][ last'.op = "validate" =>
        /\ last'.ok => \E r \in oauth_states : r.state = last'.state /\ r.expires_at > last'.at
        /\ last'.ok => \A r \in oauth_states' : r.state # last'.state
        /\ (\A r \in oauth_states : r.state = last'.state => r.expires_at <= last'.at) => ~last'.ok ]_vars

\* C26: the webhook endpoint answers every notification with HTTP 200,
\* whatever headers it carries or lacks, whether or not a user is resolved and
\* whether or not the sync it triggers fails.
C26_WebhookAlways200 ==
  last.op = "webhook" => last.status = 200

\* C27: a POST to the webhook path that carries neither a session cookie nor a
\* bearer token reaches the webhook handler; no user-authentication
\* middleware rejects it.
C27_WebhookBypassesAuth ==
  (last.op = "webhook" /\ last.req.cred = NULL) => last.reached /\ last.status \notin {401, 500}

\* C28: a notification triggers a sync only when its resource state is sync
\* or exists and its channel token and resource id match a subscription that
\* is active and unexpired, and then for that subscription's owner only.
C28_WebhookSyncOnlyForActiveSubscription ==
  (last.op = "webhook" /\ last.sync # NULL) =>
    /\ last.req.resourceState \in {"sync", "exists"}
    /\ last.req.channelToken # NULL
    /\ \E w \in ActiveSubscriptions(last.req.channelToken, last.req.resourceId) :
         w.user_id = last.sync

\* C29: getEvents reports as total the number of the user's events that pass
\* the filters, whatever the page; hasNext is true exactly when such events
\* remain beyond the page (so it is false on a page beyond the last), and
\* hasPrev exactly when the page is not the first
C29_PaginationMatchesSelection ==
  last.op = "get" =>
    LET n == Cardinality(Selected(last.u, last.params))
        offset == (last.params.page - 1) * last.params.limit
    IN /\ last.pagination.total = n
       /\ last.pagination.hasNext = (offset + last.params.limit < n)
       /\ last.pagination.hasPrev = (last.params.page > 1)
       /\ Cardinality(last.rows) =
            IF n <= offset THEN 0
            ELSE IF n - offset < last.params.limit THEN n - offset ELSE last.params.limit

\* C30: GET /calendar/events/{id} answers with the event when the id names an
\* event of the requesting user, however many other events the user has and
\* wherever it stands in start-time order, and with not-found when no event
\* has the id or the event is another user's
C30_GetEventFindsOwnedEvent ==
  last.op = "getEvent" =>
    IF \E e \in events : e.id = last.id /\ e.user = last.u
      THEN last.res.ok /\ last.res.event.id = last.id /\ last.res.event \in events
      ELSE ~last.res.ok /\ last.res.err = NotFoundError

\* C31: decrypt undoes encrypt: decrypting the value encrypt returned for a
\* text gives that text back; and a value that does not have the form encrypt
\* produces (two parts around one colon, the second a positive whole number of
\* cipher blocks) is refused with an internal error, never answered with a text
InWrapFormat(value) ==
  /\ Len(split(value)) = 2
  /\ Len(split(value)[2]) > 0
  /\ Len(split(value)[2]) % BlockSize = 0

C32_PerItemProcessing ==
  [][ \A p \in Procs :
        (procs[p].op = "sync" /\ procs[p].pc \in {"item", "write"} /\ procs'[p] # procs[p]) =>
          LET pr == procs[p]
              g == Head(pr.page)
              r0 == pr.res
              r1 == procs'[p].res
              found == RowsOf(pr.u, g.id)
              rejected == events' = events /\ r1 = [r0 EXCEPT !.nerr = @ + 1]
          IN CASE pr.pc = "item" /\ g.status = "cancelled" ->
                    /\ events' = events \ found
                    /\ r1 = [r0 EXCEPT !.deleted = @ + 1, !.processed = @ + 1]
               [] pr.pc = "item" /\ g.status # "cancelled" /\ found = {} ->
                    events' = events /\ r1 = r0 /\ procs'[p].pc = "write" /\ procs'[p].exist = -1
               [] pr.pc = "item" /\ g.status # "cancelled" /\ found # {} ->
                    /\ events' = events
                    /\ IF \A r \in found : g.updated > r.lm
                         THEN r1 = r0 /\ procs'[p].pc = "write" /\ procs'[p].exist # -1
                         ELSE r1 = [r0 EXCEPT !.processed = @ + 1]
               [] pr.pc = "write" /\ pr.exist = -1 ->
                    \/ /\ \E row \in events' :
                            /\ row.user = pr.u /\ row.gid = g.id /\ row \notin events
                            /\ events' = events \cup {row}
                       /\ r1 = [r0 EXCEPT !.created = @ + 1, !.processed = @ + 1]
                    \/ rejected
               [] pr.pc = "write" /\ pr.exist # -1 ->
                    \/ /\ \A row \in events' : row.id # pr.exist => row \in events
                       /\ \A row \in events : row.id # pr.exist => row \in events'
                       /\ r1 = [r0 EXCEPT !.updated = @ + 1, !.processed = @ + 1]
                    \/ rejected ]_vars

\* an incremental sync that was handed a cancelled event and a new one
C32_Witness ==
  /\ last.op = "sync" /\ last.res.success /\ last.tok # NoToken /\ ~last.fb
  /\ last.res.processed = 2 /\ last.res.created = 1
  /\ last.res.updated = 0 /\ last.res.deleted = 1

\* C33: a row's sync_in_progress goes from true to false only in a step that
\* is complete_sync_for_user (success or failure) or the maintenance reset; the
\* reset clears only rows whose flag was set more than an hour before, marks
\* them with the error text and adds one to the error count, and leaves every
\* row running for an hour or less as it was
WasReset(c, d, t) ==
  d = [c EXCEPT !.sync_in_progress = FALSE, !.sync_error = StuckMarker,
                !.sync_error_count = @ + 1, !.updated_at = t]

C33_FlagClearedOnlyByCompletionOrReset ==
  [][ \A u \in Users :
        /\ (cursor[u].sync_in_progress /\ ~cursor'[u].sync_in_progress) =>
             \/ \E ok \in BOOLEAN :
                  cursor'[u] = complete_sync_for_user(cursor[u],
                                  IF ok THEN upVer[u] ELSE NoToken, ok,
                                  IF ok THEN NULL ELSE "Sync failed", now)
             \/ /\ WasReset(cursor[u], cursor'[u], now)
                /\ ops.since[u] < now - StuckInterval
        /\ (cursor[u].sync_in_progress /\ ops.since[u] >= now - StuckInterval
            /\ \E v \in Users : cursor[v].sync_in_progress /\ WasReset(cursor[v], cursor'[v], now))
             => cursor'[u] = cursor[u] ]_vars

\* a reset has just cleared a row that was running for over an hour while
\* another row, running for less, keeps its flag
C33_Witness ==
  \E u, v \in Users :
    /\ cursor[u].sync_error = StuckMarker /\ ~cursor[u].sync_in_progress
    /\ cursor[u].updated_at = now
    /\ cursor[v].sync_in_progress /\ ops.since[v] >= now - StuckInterval

C35_RetryDelay ==
  last.op = "delay" =>
    LET backoff == BaseDelay * Pow(BackoffMultiplier, last.attempt) IN
    IF last.e.retryAfter = NULL
      THEN /\ last.ms = (IF backoff < MaxDelay THEN backoff ELSE MaxDelay)
           /\ last.ms <= MaxDelay
      ELSE parseInt(last.e.retryAfter) # NaN => last.ms = parseInt(last.e.retryAfter) * 1000

\* C36: a sync that fails leaves the user's stored next sync token and
\* full_sync_completed as they were, so a user who had completed a full sync
\* still syncs incrementally from the same token afterwards
C36_FailedSyncKeepsCursor ==
  (last.op = "sync" /\ ~last.res.success) =>
    /\ last.after.next_sync_token = last.before.next_sync_token
    /\ last.after.full_sync_completed = last.before.full_sync_completed

\* C37: when a sync stores a new next sync token, every event it was handed
\* that is not cancelled has a local row and every cancelled one has none: the
\* cursor does not move past an item whose processing failed
DeliveredTo(u, g, full, tok) ==
  IF full THEN upstream[u][g].st = "confirmed"
  ELSE upstream[u][g].st # "none" /\ upstream[u][g].chg > tok

C37_CursorNeverSkipsFailedItem ==
  (last.op = "sync" /\ last.res.success /\ last.after.next_sync_token # NoToken) =>
    \A g \in GIds :
      DeliveredTo(last.u, g, last.tok = NoToken \/ last.fb, last.tok) =>
        /\ upstream[last.u][g].st = "confirmed" => RowsOf(last.u, g) # {}
        /\ upstream[last.u][g].st = "cancelled" => RowsOf(last.u, g) = {}

\* C38: when createEvent or updateEvent returns an error after the upstream
\* accepted its call, the upstream and the local replica agree on the event:
\* an event that exists upstream has a local row with the same title, start
\* and end, and one that does not exist upstream has no row
AgreeOn(u, g) ==
  IF upstream[u][g].st = "confirmed"
    THEN \E r \in RowsOf(u, g) :
           /\ r.title = upstream[u][g].title
           /\ r.start = upstream[u][g].start
           /\ r.end = upstream[u][g].end
    ELSE RowsOf(u, g) = {}

C38_FailedWriteLeavesAgreement ==
  (last.op \in {"create", "update"} /\ ~last.ok /\ last.upAck) => AgreeOn(last.u, last.gid)

\* the credential columns of a user whose tokens have been revoked
Cleared == CredRow(NoToken, NoToken, NoTime)

C40_StuckFlagReleased ==
  \A u \in Users : cursor[u].sync_in_progress ~> ~cursor[u].sync_in_progress

====
